---- MODULE Spec2Model ----
(***************************************************************************)
(* A model of the event-window return scripts of sec-filing-analyzer:      *)
(* the collection scripts that attach a 7-day return to every filing       *)
(* (collect-full-dataset.py, collect-historical-data.py,                   *)
(* test-collection.py), the pre-filing volume fetch loop                   *)
(* (python/analyze-prefiling-volume.py), the direction-accuracy            *)
(* evaluations of the backtest, regression and training scripts, and the   *)
(* deduplication pass of python/fix-duplicates-and-retrain.py.             *)
(*                                                                         *)
(* Calendar dates are day numbers.  A float is modelled by the exact       *)
(* rational it denotes: a return is the record [num, den] of the quotient  *)
(* the code evaluates, compared by cross-multiplication.                   *)
(***************************************************************************)
EXTENDS Integers, Sequences, FiniteSets, TLC

VARIABLES
    script,        \* which script this run executes
    pc,            \* position of the run
    ti,            \* index of the next ticker of the main loop
    all_filings,   \* the accumulated filing records
    cur,           \* ticker of the last return batch
    fetchStatus,       \* outcome of the last price-history call
    hist,          \* rows the last price-history call returned
    filing_dates,  \* filing dates handed to the last return batch
    returns,       \* result of the last return batch: date -> return
    priceCalls,    \* price-history calls made so far, per ticker
    sleeps,        \* rate-limit delays taken so far
    indexStatus,   \* outcome of the last filing-index call
    gi,            \* collect-historical-data: index of the next ticker group
    returns_map,   \* collect-historical-data: ticker -> (date -> return)
    df,            \* analyze-prefiling-volume: the rows of the input CSV
    cache,         \* analyze-prefiling-volume: the keys of the volume cache
    fetched,       \* analyze-prefiling-volume: rows fetched
    cached,        \* analyze-prefiling-volume: rows served by the cache
    failed,        \* analyze-prefiling-volume: rows whose fetch failed
    volume_data,   \* analyze-prefiling-volume: keys of the result rows
    cache_file,    \* analyze-prefiling-volume: keys held by the cache file on disk
    vrun,          \* analyze-prefiling-volume: first or second run over the input
    firstLog,      \* analyze-prefiling-volume: the fetches of the first run
    pairs,         \* evaluation: the (predicted, actual) pairs of the dataset
    report,        \* evaluation: what each script's evaluation reported
    errstats,      \* evaluation: the error statistics each backtest printed
    step,          \* fix-duplicates-and-retrain: position in fix_and_retrain
    csv,           \* fix-duplicates-and-retrain: rows of the CSV, in file order
    df_sorted,     \* fix-duplicates-and-retrain: df after sort_values
    df_dedup,      \* fix-duplicates-and-retrain: df_dedup
    df_no_extremes, \* fix-duplicates-and-retrain: df_no_extremes
    df_clean,      \* fix-duplicates-and-retrain: df_clean after winsorization
    sscript,       \* surprise loop: which extraction script runs
    enriched_filings, \* surprise loop: one ticker's filings, in dataset order
    ticker_filings,   \* surprise loop: by_ticker[ticker] after sort and loop
    sstep,         \* surprise loop: position in the script
    pscript,       \* padded fetch: which collection script runs
    calendar,      \* padded fetch: the rows the price source holds
    pdates,        \* padded fetch: the ticker's filing dates
    phist,         \* padded fetch: the rows the fetch returned
    pwindows,      \* padded fetch: filing date -> rows the return is taken from
    pstep,         \* padded fetch: position in the batch function
    lrow,          \* backtest-v3-optimized: the filing's fields other than its return
    lactual,       \* backtest-v3-optimized: actual7dReturn in run 1 and in run 2
    ldraws,        \* backtest-v3-optimized: the two draws of the seeded generator
    lscores,       \* backtest-v3-optimized: sentiment and risk delta, per run
    lpred,         \* backtest-v3-optimized: the predicted value, per run
    lstep,         \* backtest-v3-optimized: position in the script
    zsite,         \* input handling: which function handles the values
    zin,           \* input handling: the input values, one per field
    zout,          \* input handling: what the function made of each
    zstep,         \* input handling: before or after the function
    data_filings,  \* extract-real-financial-data: tickers of data['filings']
    ticker_cache,  \* extract-real-financial-data: ticker_cache
    fetchLog,      \* every external fetch made so far: its key and outcome
    mstep,         \* fetch-macro-indicators-enhanced: position in the function
    result,        \* fetch-macro-indicators-enhanced: keys of the result dict
    sector_i,      \* fetch-macro-indicators-enhanced: position in sectors
    fetchRaised,   \* fetch-macro-indicators-enhanced: a history call raised
    macro_out,     \* fetch-macro-indicators-enhanced: the returned dict
    events,        \* the external calls and rate-limit delays of the run, in order
    rscript,       \* return calculator: which script's function is called
    rdates,        \* return calculator: the filing_dates list the caller holds
    rdays,         \* return calculator: the horizon passed
    rseries,       \* return calculator: the price series of the source
    rout,          \* return calculator: the results of the calls made so far
    tscript,       \* model selection: which training script runs
    cv_results,    \* model selection: mean direction accuracy of each candidate
    best_result,   \* model selection: name of the cross-validation winner
    final_model,   \* model selection: estimator class fitted on the full dataset
    segment_model, \* model selection: estimator class fitted per segment
    tstep,         \* model selection: position in main
    company_facts, \* extract-real-financial-data.py: the facts items of each metric, in search order
    metrics,       \* the result of extract_financials
    enriched_filing,\* the filing as appended to enriched_filings
    xstep,         \* position in one iteration of the extraction loop
    model_predict, \* predict_baseline.py: the class the model predicts
    model_proba,   \* the model's probability of class 1, in ten-thousandths
    presult,       \* the result of predict()
    bstep,         \* position in predict()
    quality_df,    \* analyze-data-quality.py: the actual7dReturn column of the CSV, in percent
    buckets,       \* the number of rows of each of the five selections
    qstep          \* position in analyze_data_quality

collectVars == <<script, pc, ti, all_filings, cur, fetchStatus, hist, filing_dates,
                 returns, priceCalls, sleeps, indexStatus, gi, returns_map>>

volumeVars == <<df, cache, fetched, cached, failed, volume_data, cache_file, vrun,
                firstLog>>

evalVars == <<pairs, report, errstats>>

dedupVars == <<step, csv, df_sorted, df_dedup, df_no_extremes, df_clean>>

surpriseVars == <<sscript, enriched_filings, ticker_filings, sstep>>

padVars == <<pscript, calendar, pdates, phist, pwindows, pstep>>

leakVars == <<lrow, lactual, ldraws, lscores, lpred, lstep>>

zeroVars == <<zsite, zin, zout, zstep>>

factsVars == <<data_filings, ticker_cache, fetchLog>>

macroVars == <<mstep, result, sector_i, fetchRaised, macro_out>>

rateVars == <<events>>

pureVars == <<rscript, rdates, rdays, rseries, rout>>

selectVars == <<tscript, cv_results, best_result, final_model, segment_model, tstep>>

extractVars == <<company_facts, metrics, enriched_filing, xstep>>

predictVars == <<model_predict, model_proba, presult, bstep>>

qualityVars == <<quality_df, buckets, qstep>>

laterVars == <<pureVars, selectVars, extractVars, predictVars, qualityVars>>

baseVars == <<collectVars, volumeVars, evalVars, dedupVars, surpriseVars, padVars,
              leakVars, zeroVars, factsVars, macroVars, rateVars>>

restVars == <<factsVars, macroVars, rateVars, laterVars>>

moreVars == <<surpriseVars, padVars, leakVars, zeroVars, restVars>>

otherVars == <<volumeVars, evalVars, dedupVars, surpriseVars, padVars, leakVars,
               zeroVars, factsVars, macroVars, laterVars>>

vars == <<collectVars, volumeVars, evalVars, dedupVars, moreVars>>

(***************************************************************************)
(* Bounds of the model.                                                    *)
(***************************************************************************)
MaxLen == 8
MaxFilings == 2
MaxRows == 3
MaxPairs == 3
MaxCsv == 3
MaxPeriods == 6
MaxHolidays == 1
CalendarSpan == 20
MaxFields == 3
MaxItems == 2
MaxSamples == 2

(***************************************************************************)
(* Program constants.                                                      *)
(***************************************************************************)
HorizonDays == 7
PadFull == 7
PadHist == 5
PadTest == 14
WindowTest == 14
HorizonTest == 7
TestLimit == 3
QuartersBack == 4
SurpriseThreshold == 5

(***************************************************************************)
(* None, as the value of a return.                                         *)
(***************************************************************************)
NULL == [null |-> TRUE, num |-> 0, den |-> 1]

NoTicker == "none"

TICKERS == <<"AAPL", "MSFT">>

TickerSet == {TICKERS[k] : k \in 1..Len(TICKERS)}

(***************************************************************************)
(* Inputs: the filing dates the filing index can report and the price      *)
(* series the price source can hold.                                       *)
(***************************************************************************)
DateChoices == {0, 3}

StartChoices == {0, 1, 15}

SyntheticSeries == <<100, 105, 110, 95, 90, 100, 107, 103>>

ClosePattern(p, k) ==
    IF p = 1 THEN SyntheticSeries[((k - 1) % Len(SyntheticSeries)) + 1]
    ELSE 100

MkSeries(start, n, p) ==
    [k \in 1..n |-> [date |-> start + (k - 1), close |-> ClosePattern(p, k)]]

SeriesChoices ==
    {MkSeries(s, n, p) : s \in StartChoices, n \in 0..MaxLen, p \in {1, 2}}

DateLists ==
    UNION {[1..n -> DateChoices] : n \in 0..MaxFilings}

(***************************************************************************)
(* analyze-prefiling-volume.py: cache_key = ticker_date, here the pair.    *)
(***************************************************************************)
KeyChoices == {<<TICKERS[k], d>> : k \in 1..Len(TICKERS), d \in DateChoices}

RowLists ==
    UNION {[1..n -> KeyChoices] : n \in 0..MaxRows}

(***************************************************************************)
(* extract-real-financial-data.py: the tickers CIK_MAP knows, and the      *)
(* tickers of the filings of /tmp/dataset.json, in file order.             *)
(***************************************************************************)
CIK_MAP == TickerSet

FilingTickers == CIK_MAP \cup {"ZZZZ"}

FilingTickerLists ==
    UNION {[1..n -> FilingTickers] : n \in 0..MaxRows}

(***************************************************************************)
(* One entry of the log of external fetches.                               *)
(***************************************************************************)
Fetch(key, ok) == [key |-> key, ok |-> ok]

(***************************************************************************)
(* Sequence helpers.                                                       *)
(***************************************************************************)
RECURSIVE MinOf(_)
MinOf(s) ==
    IF Len(s) = 1 THEN s[1]
    ELSE LET m == MinOf(Tail(s)) IN IF s[1] < m THEN s[1] ELSE m

RECURSIVE MaxOf(_)
MaxOf(s) ==
    IF Len(s) = 1 THEN s[1]
    ELSE LET m == MaxOf(Tail(s)) IN IF s[1] > m THEN s[1] ELSE m

Range(s) == {s[k] : k \in 1..Len(s)}

Min2(a, b) == IF a < b THEN a ELSE b

DictGet(d, k) == IF k \in DOMAIN d THEN d[k] ELSE NULL

EmptyDict == [k \in {} |-> NULL]

DictGet2(d, k) == IF k \in DOMAIN d THEN d[k] ELSE EmptyDict

(***************************************************************************)
(* The price-history source: rows with start <= date < end.                *)
(***************************************************************************)
History(market, start, end) ==
    SelectSeq(market, LAMBDA r : r.date >= start /\ r.date < end)

(***************************************************************************)
(* hist[hist.index >= dt]                                                  *)
(***************************************************************************)
RowsFrom(h, dt) == SelectSeq(h, LAMBDA r : r.date >= dt)

(***************************************************************************)
(* ((end_price - start_price) / start_price) * 100                         *)
(***************************************************************************)
PctReturn(start_price, end_price) ==
    [null |-> FALSE, num |-> (end_price - start_price) * 100, den |-> start_price]

(***************************************************************************)
(* Mutants of ReturnsFull: the end row taken one trading day early, and a  *)
(* window of a single row accepted.                                        *)
(***************************************************************************)
ReturnsFull_EarlyEnd(h, dates, days) ==
    IF h = <<>> THEN EmptyDict
    ELSE [d \in Range(dates) |->
            LET window == RowsFrom(h, d)
            IN  IF Len(window) < 2 THEN NULL
                ELSE LET end_idx == Min2(days - 1, Len(window) - 1)
                     IN  PctReturn(window[1].close, window[end_idx + 1].close)]

ReturnsFull_OneRow(h, dates, days) ==
    IF h = <<>> THEN EmptyDict
    ELSE [d \in Range(dates) |->
            LET window == RowsFrom(h, d)
            IN  IF Len(window) < 1 THEN NULL
                ELSE LET end_idx == Min2(days, Len(window) - 1)
                     IN  PctReturn(window[1].close, window[end_idx + 1].close)]

(***************************************************************************)
(* Mutant of ReturnsFull: a window shorter than days + 1 rows gives None   *)
(* instead of a return up to its last row.                                 *)
(***************************************************************************)
ReturnsFull_FailShort(h, dates, days) ==
    IF h = <<>> THEN EmptyDict
    ELSE [d \in Range(dates) |->
            LET window == RowsFrom(h, d)
            IN  IF Len(window) < days + 1 THEN NULL
                ELSE PctReturn(window[1].close, window[days + 1].close)]

(***************************************************************************)
(* collect-full-dataset.py, calc_returns_batch: the part after the fetch.  *)
(***************************************************************************)
ReturnsFull(h, dates, days) ==
    IF h = <<>> THEN EmptyDict
    ELSE [d \in Range(dates) |->
            LET window == RowsFrom(h, d)
            IN  IF Len(window) < 2 THEN NULL
                ELSE LET end_idx == Min2(days, Len(window) - 1)
                     IN  PctReturn(window[1].close, window[end_idx + 1].close)]

(***************************************************************************)
(* test-collection.py, calc_returns_batch: the part after the fetch.       *)
(***************************************************************************)
FilingHist(h, dt) ==
    SelectSeq(h, LAMBDA r : r.date >= dt /\ r.date <= dt + WindowTest)

ReturnsTest(h, dates) ==
    [d \in Range(dates) |->
        LET filing_hist == FilingHist(h, d)
        IN  IF Len(filing_hist) >= 2
            THEN PctReturn(filing_hist[1].close,
                           filing_hist[Min2(HorizonTest, Len(filing_hist) - 1) + 1].close)
            ELSE NULL]

AllNone(dates) == [d \in Range(dates) |-> NULL]

(***************************************************************************)
(* The filing records of one ticker with the returns attached:             *)
(* filing["actual7dReturn"] = returns.get(filing["filingDate"]).           *)
(***************************************************************************)
Attach(ticker, dates, rets) ==
    [k \in 1..Len(dates) |->
        [ticker |-> ticker, filingDate |-> dates[k],
         actual7dReturn |-> DictGet(rets, dates[k])]]

Take(s, n) == IF Len(s) <= n THEN s ELSE SubSeq(s, 1, n)

(***************************************************************************)
(* The evaluation scripts and fix_and_retrain are not part of a collection *)
(* run, nor a collection run of theirs.                                    *)
(***************************************************************************)
NotRun == [state |-> "none", correct |-> 0, total |-> 0]

EvalScripts == {"real", "comprehensive", "stepwise", "ml"}

NoStats == [state |-> "none", count |-> 0, sum |-> 0, median |-> 0]

BacktestScripts == {"real", "comprehensive"}

EvalIdle ==
    /\ pairs = <<>>
    /\ report = [s \in EvalScripts |-> NotRun]
    /\ errstats = [s \in BacktestScripts |-> NoStats]

DedupIdle ==
    /\ step = "idle"
    /\ csv = <<>>
    /\ df_sorted = <<>>
    /\ df_dedup = <<>>
    /\ df_no_extremes = <<>>
    /\ df_clean = <<>>

SurpriseIdle ==
    /\ sscript = "none"
    /\ enriched_filings = <<>>
    /\ ticker_filings = <<>>
    /\ sstep = "idle"

PadIdle ==
    /\ pscript = "none"
    /\ calendar = <<>>
    /\ pdates = <<>>
    /\ phist = <<>>
    /\ pwindows = EmptyDict
    /\ pstep = "idle"

LeakIdle ==
    /\ lrow = <<>>
    /\ lactual = <<>>
    /\ ldraws = <<>>
    /\ lscores = <<>>
    /\ lpred = <<>>
    /\ lstep = "idle"

ZeroIdle ==
    /\ zsite = "none"
    /\ zin = <<>>
    /\ zout = <<>>
    /\ zstep = "idle"

FactsIdle ==
    /\ data_filings = <<>>
    /\ ticker_cache = EmptyDict
    /\ fetchLog = <<>>

NoOutput == [success |-> FALSE, fields |-> {}]

MacroIdle ==
    /\ mstep = "idle"
    /\ result = {}
    /\ sector_i = 1
    /\ fetchRaised = FALSE
    /\ macro_out = NoOutput

RateIdle == events = <<>>

PureIdle ==
    /\ rscript = "none"
    /\ rdates = <<>>
    /\ rdays = 0
    /\ rseries = <<>>
    /\ rout = <<>>

SelectIdle ==
    /\ tscript = "none"
    /\ cv_results = <<>>
    /\ best_result = 0
    /\ final_model = "none"
    /\ segment_model = "none"
    /\ tstep = "idle"

(***************************************************************************)
(* extract-real-financial-data.py: the three metrics of extract_financials *)
(* and a metrics dict without any of them.                                 *)
(***************************************************************************)
MetricNames == {"eps", "revenue", "netIncome"}

NoKey == [has |-> FALSE, val |-> 0]

NoMetrics == [none |-> TRUE, eps |-> NoKey, revenue |-> NoKey, netIncome |-> NoKey]

ExtractIdle ==
    /\ company_facts = [m \in MetricNames |-> <<>>]
    /\ metrics = NoMetrics
    /\ enriched_filing = [hasRealFinancials |-> FALSE, realFinancials |-> NoMetrics]
    /\ xstep = "idle"

(***************************************************************************)
(* predict_baseline.py: a recommendation, and the result before predict()  *)
(* has built it.                                                           *)
(***************************************************************************)
Recommendation(action, size, reason) ==
    [action |-> action, size |-> size, reason |-> reason]

NoResult ==
    [prediction |-> 0, confidence |-> 0,
     recommendation |-> Recommendation("none", "none", "none")]

PredictIdle ==
    /\ model_predict = 0
    /\ model_proba = 0
    /\ presult = NoResult
    /\ bstep = "idle"

(***************************************************************************)
(* analyze-data-quality.py: the five selections, each the set of the       *)
(* positions of its rows, before any row is selected.                      *)
(***************************************************************************)
NoBuckets ==
    [extreme_positive |-> {}, extreme_negative |-> {}, high_positive |-> {},
     high_negative |-> {}, reasonable |-> {}]

QualityIdle ==
    /\ quality_df = <<>>
    /\ buckets = NoBuckets
    /\ qstep = "idle"

LaterIdle == PureIdle /\ SelectIdle /\ ExtractIdle /\ PredictIdle /\ QualityIdle

RestIdle == FactsIdle /\ MacroIdle /\ RateIdle /\ LaterIdle

MoreIdle == SurpriseIdle /\ PadIdle /\ LeakIdle /\ ZeroIdle /\ RestIdle

(***************************************************************************)
(* Initial state: nothing collected, no call made.                         *)
(***************************************************************************)
Init ==
    /\ EvalIdle
    /\ DedupIdle
    /\ SurpriseIdle /\ PadIdle /\ LeakIdle /\ ZeroIdle /\ MacroIdle /\ RateIdle
    /\ LaterIdle
    /\ script \in {"full", "hist", "test", "volume", "facts"}
    /\ data_filings \in (IF script = "facts" THEN FilingTickerLists ELSE {<<>>})
    /\ ticker_cache = EmptyDict
    /\ fetchLog = <<>>
    /\ pc = "loop"
    /\ ti = 1
    /\ all_filings = <<>>
    /\ cur = NoTicker
    /\ fetchStatus = "none"
    /\ hist = <<>>
    /\ filing_dates = <<>>
    /\ returns = EmptyDict
    /\ priceCalls = [t \in TickerSet |-> 0]
    /\ sleeps = 0
    /\ indexStatus = "none"
    /\ gi = 1
    /\ returns_map = EmptyDict
    /\ df \in (IF script = "volume" THEN RowLists ELSE {<<>>})
    /\ cache \in (IF script = "volume" THEN SUBSET KeyChoices ELSE {{}})
    /\ cache_file = cache
    /\ vrun = 1
    /\ firstLog = <<>>
    /\ fetched = 0
    /\ cached = 0
    /\ failed = 0
    /\ volume_data = <<>>

(***************************************************************************)
(* Mutants of calc_returns_batch: one price call per filing, and the price *)
(* call made outside the try block.                                        *)
(***************************************************************************)
calc_returns_batch_PerFiling(dates, days, market, priceFails) ==
    IF dates = <<>>
    THEN [calls |-> 0, status |-> "none", hist |-> <<>>,
          returns |-> EmptyDict, raised |-> FALSE]
    ELSE IF priceFails
    THEN [calls |-> Len(dates), status |-> "error", hist |-> <<>>,
          returns |-> EmptyDict, raised |-> FALSE]
    ELSE LET h == History(market, MinOf(dates),
                          MaxOf(dates) + days + PadFull)
         IN  [calls |-> Len(dates), status |-> "ok", hist |-> h,
              returns |-> ReturnsFull(h, dates, days), raised |-> FALSE]

calc_returns_batch_Unguarded(dates, days, market, priceFails) ==
    IF dates = <<>>
    THEN [calls |-> 0, status |-> "none", hist |-> <<>>,
          returns |-> EmptyDict, raised |-> FALSE]
    ELSE IF priceFails
    THEN [calls |-> 1, status |-> "error", hist |-> <<>>,
          returns |-> EmptyDict, raised |-> TRUE]
    ELSE LET h == History(market, MinOf(dates),
                          MaxOf(dates) + days + PadFull)
         IN  [calls |-> 1, status |-> "ok", hist |-> h,
              returns |-> ReturnsFull(h, dates, days), raised |-> FALSE]

(***************************************************************************)
(* collect-full-dataset.py, calc_returns_batch.  No call is made for an    *)
(* empty list; the whole body runs under try/except, so a raising price    *)
(* call yields {}; so does a call that returns no rows.                    *)
(***************************************************************************)
calc_returns_batch(dates, days, market, priceFails) ==
    IF dates = <<>>
    THEN [calls |-> 0, status |-> "none", hist |-> <<>>,
          returns |-> EmptyDict, raised |-> FALSE]
    ELSE IF priceFails
    THEN [calls |-> 1, status |-> "error", hist |-> <<>>,
          returns |-> EmptyDict, raised |-> FALSE]
    ELSE LET h == History(market, MinOf(dates),
                          MaxOf(dates) + days + PadFull)
         IN  [calls |-> 1, status |-> "ok", hist |-> h,
              returns |-> ReturnsFull(h, dates, days), raised |-> FALSE]

(***************************************************************************)
(* test-collection.py, calc_returns_batch.  The bare except maps every     *)
(* date to None.                                                           *)
(***************************************************************************)
calc_returns_batch_test(dates, market, priceFails) ==
    IF dates = <<>>
    THEN [calls |-> 0, status |-> "none", hist |-> <<>>,
          returns |-> EmptyDict, raised |-> FALSE]
    ELSE IF priceFails
    THEN [calls |-> 1, status |-> "error", hist |-> <<>>,
          returns |-> AllNone(dates), raised |-> FALSE]
    ELSE LET h == History(market, MinOf(dates), MaxOf(dates) + PadTest)
         IN  [calls |-> 1, status |-> "ok", hist |-> h,
              returns |-> ReturnsTest(h, dates), raised |-> FALSE]

(***************************************************************************)
(* The effect of one return batch on the run: an exception that leaves the *)
(* batch ends the run, otherwise the returns are attached to the ticker's  *)
(* filings, the records appended and the rate-limit delay taken.           *)
(***************************************************************************)
RunBatch(ticker, dates, r) ==
    /\ cur' = ticker
    /\ filing_dates' = dates
    /\ fetchStatus' = r.status
    /\ hist' = r.hist
    /\ returns' = r.returns
    /\ priceCalls' = [priceCalls EXCEPT ![ticker] = @ + r.calls]
    /\ events' = events \o <<"call">>
                        \o (IF r.calls > 0 THEN <<"call">> ELSE <<>>)
                        \o (IF r.raised THEN <<>> ELSE <<"sleep">>)
    /\ IF r.raised
       THEN /\ pc' = "aborted"
            /\ UNCHANGED <<ti, all_filings, sleeps>>
       ELSE /\ all_filings' = all_filings \o Attach(ticker, dates, r.returns)
            /\ sleeps' = sleeps + 1
            /\ ti' = ti + 1
            /\ pc' = pc

(***************************************************************************)
(* collect-full-dataset.py: one iteration of the main loop.  fetch_filings *)
(* returns [] when the filing index fails.                                 *)
(***************************************************************************)
FullIteration ==
    /\ script = "full" /\ pc = "loop" /\ ti <= Len(TICKERS)
    /\ \E listed \in DateLists, indexFails \in BOOLEAN,
          market \in SeriesChoices, priceFails \in BOOLEAN :
        LET dates == IF indexFails THEN <<>> ELSE listed
        IN  /\ indexStatus' = IF indexFails THEN "error" ELSE "ok"
            /\ RunBatch(TICKERS[ti], dates,
                        calc_returns_batch(dates, HorizonDays, market, priceFails))
    /\ UNCHANGED <<script, gi, returns_map>>
    /\ UNCHANGED otherVars

(***************************************************************************)
(* collect-full-dataset.py, test-collection.py: the JSON printed after the *)
(* loop.                                                                   *)
(***************************************************************************)
Emit ==
    /\ script \in {"full", "test"} /\ pc = "loop" /\ ti > Len(TICKERS)
    /\ pc' = "done"
    /\ UNCHANGED <<script, ti, all_filings, cur, fetchStatus, hist, filing_dates,
                   returns, priceCalls, sleeps, indexStatus, gi, returns_map>>
    /\ UNCHANGED <<volumeVars, evalVars, dedupVars, moreVars>>

(***************************************************************************)
(* test-collection.py: one iteration of the main loop.  fetch_filings has  *)
(* no handler, so a failing filing index ends the run with a traceback and *)
(* no JSON.                                                                *)
(***************************************************************************)
TestIteration ==
    /\ script = "test" /\ pc = "loop" /\ ti <= Len(TICKERS)
    /\ \E listed \in DateLists, indexFails \in BOOLEAN,
          market \in SeriesChoices, priceFails \in BOOLEAN :
        IF indexFails
        THEN /\ indexStatus' = "error"
             /\ pc' = "aborted"
             /\ events' = Append(events, "call")
             /\ UNCHANGED <<ti, all_filings, cur, fetchStatus, hist,
                            filing_dates, returns, priceCalls, sleeps>>
        ELSE LET dates == Take(listed, TestLimit)
             IN  /\ indexStatus' = "ok"
                 /\ RunBatch(TICKERS[ti], dates,
                             calc_returns_batch_test(dates, market, priceFails))
    /\ UNCHANGED <<script, gi, returns_map>>
    /\ UNCHANGED otherVars

(***************************************************************************)
(* Mutant of ReturnsHist: a filing with fewer than days + 1 rows from its  *)
(* date on gets no entry (no clamping to the last row).                    *)
(***************************************************************************)
ReturnsHist_Strict(h, dates, days) ==
    IF Len(h) < 2 THEN EmptyDict
    ELSE [d \in {x \in Range(dates) : Len(RowsFrom(h, x)) >= days + 1} |->
            LET hist_after_filing == RowsFrom(h, d)
            IN  PctReturn(hist_after_filing[1].close,
                          hist_after_filing[days + 1].close)]

(***************************************************************************)
(* collect-historical-data.py, calculate_stock_returns_batch: the returns  *)
(* of one ticker's filings, the part after the fetch.  A filing with fewer *)
(* than two rows from its date on gets no entry.                           *)
(***************************************************************************)
ReturnsHist(h, dates, days) ==
    IF Len(h) < 2 THEN EmptyDict
    ELSE [d \in {x \in Range(dates) : Len(RowsFrom(h, x)) >= 2} |->
            LET hist_after_filing == RowsFrom(h, d)
                end_price == IF Len(hist_after_filing) >= days + 1
                             THEN hist_after_filing[days + 1].close
                             ELSE hist_after_filing[Len(hist_after_filing)].close
            IN  PctReturn(hist_after_filing[1].close, end_price)]

DatesOf(filings, ticker) ==
    LET own == SelectSeq(filings, LAMBDA f : f.ticker = ticker)
    IN  [k \in 1..Len(own) |-> own[k].filingDate]

(***************************************************************************)
(* filings_by_ticker: the tickers that have filings, in order of first     *)
(* appearance.                                                             *)
(***************************************************************************)
GroupOrder(filings) ==
    SelectSeq(TICKERS, LAMBDA t : \E k \in 1..Len(filings) : filings[k].ticker = t)

(***************************************************************************)
(* collect-historical-data.py, main: one iteration of the collection loop. *)
(* The records carry no return yet (a get of the key gives None).          *)
(***************************************************************************)
HistCollect ==
    /\ script = "hist" /\ pc = "loop" /\ ti <= Len(TICKERS)
    /\ \E listed \in DateLists, indexFails \in BOOLEAN :
        LET dates == IF indexFails THEN <<>> ELSE listed
        IN  /\ indexStatus' = IF indexFails THEN "error" ELSE "ok"
            /\ all_filings' = all_filings \o
                    [k \in 1..Len(dates) |->
                        [ticker |-> TICKERS[ti], filingDate |-> dates[k],
                         actual7dReturn |-> NULL]]
    /\ sleeps' = sleeps + 1
    /\ ti' = ti + 1
    /\ UNCHANGED <<script, pc, cur, fetchStatus, hist, filing_dates, returns,
                   priceCalls, gi, returns_map>>
    /\ UNCHANGED otherVars
    /\ events' = events \o <<"call", "sleep">>

(***************************************************************************)
(* calculate_stock_returns_batch: one iteration of the loop over           *)
(* filings_by_ticker.  An exception of the price call is caught and the    *)
(* ticker skipped.                                                         *)
(***************************************************************************)
HistBatchStep ==
    /\ script = "hist" /\ pc = "loop" /\ ti > Len(TICKERS)
    /\ gi <= Len(GroupOrder(all_filings))
    /\ \E market \in SeriesChoices, priceFails \in BOOLEAN :
        LET ticker == GroupOrder(all_filings)[gi]
            dates  == DatesOf(all_filings, ticker)
            h      == IF priceFails THEN <<>>
                      ELSE History(market, MinOf(dates),
                                   MaxOf(dates) + HorizonDays + PadHist)
            rets   == IF priceFails THEN EmptyDict
                      ELSE ReturnsHist(h, dates, HorizonDays)
        IN  /\ cur' = ticker
            /\ filing_dates' = dates
            /\ fetchStatus' = IF priceFails THEN "error" ELSE "ok"
            /\ hist' = h
            /\ returns' = rets
            /\ priceCalls' = [priceCalls EXCEPT ![ticker] = @ + 1]
            /\ returns_map' = IF DOMAIN rets = {} THEN returns_map
                              ELSE [t \in DOMAIN returns_map \cup {ticker} |->
                                      IF t = ticker THEN rets ELSE returns_map[t]]
    /\ gi' = gi + 1
    /\ UNCHANGED <<script, pc, ti, all_filings, sleeps, indexStatus>>
    /\ UNCHANGED otherVars
    /\ events' = Append(events, "call")

(***************************************************************************)
(* main: returns_map.get(ticker, {}).get(filing_date) for every filing,    *)
(* then the JSON output.                                                   *)
(***************************************************************************)
HistAttach ==
    /\ script = "hist" /\ pc = "loop" /\ ti > Len(TICKERS)
    /\ gi > Len(GroupOrder(all_filings))
    /\ all_filings' =
            [k \in 1..Len(all_filings) |->
                [all_filings[k] EXCEPT !.actual7dReturn =
                    DictGet(DictGet2(returns_map, all_filings[k].ticker),
                            all_filings[k].filingDate)]]
    /\ pc' = "done"
    /\ UNCHANGED <<script, ti, cur, fetchStatus, hist, filing_dates, returns,
                   priceCalls, sleeps, indexStatus, gi, returns_map>>
    /\ UNCHANGED <<volumeVars, evalVars, dedupVars, moreVars>>

(***************************************************************************)
(* analyze-prefiling-volume.py, load_cache and save_cache: the file holds  *)
(* what the last save wrote; the mutant writes nothing.                    *)
(***************************************************************************)
load_cache(file) == file

save_cache_Skip(c, file) == file

save_cache(c, file) == c

(***************************************************************************)
(* analyze_prefiling_volume: the else of `if volume_metrics:' counts a     *)
(* fetch without metrics as failed.                                        *)
(***************************************************************************)
CountFailed_Never(n, volume_metrics) == n

CountFailed(n, volume_metrics) == IF volume_metrics THEN n ELSE n + 1

(***************************************************************************)
(* analyze-prefiling-volume.py, analyze_prefiling_volume: one iteration of *)
(* the fetch loop.  A row whose key is cached is served from the cache;    *)
(* any other row calls the price source, whose answer is cached only when  *)
(* it has metrics, and then waits RATE_LIMIT_DELAY.                        *)
(***************************************************************************)
VolumeIteration ==
    /\ script = "volume" /\ pc = "loop" /\ ti <= Len(df)
    /\ LET cache_key == df[ti]
           ticker    == df[ti][1]
       IN  IF cache_key \in cache
           THEN /\ cached' = cached + 1
                /\ volume_data' = Append(volume_data, cache_key)
                /\ UNCHANGED <<cache, fetched, failed, priceCalls, sleeps,
                               fetchStatus, fetchLog, events>>
           ELSE \E volume_metrics \in BOOLEAN :
                /\ priceCalls' = [priceCalls EXCEPT ![ticker] = @ + 1]
                /\ fetchLog' = Append(fetchLog, Fetch(cache_key, volume_metrics))
                /\ events' = events \o <<"call", "sleep">>
                /\ fetchStatus' = IF volume_metrics THEN "ok" ELSE "error"
                /\ cache' = IF volume_metrics THEN cache \cup {cache_key} ELSE cache
                /\ fetched' = IF volume_metrics THEN fetched + 1 ELSE fetched
                /\ failed' = CountFailed(failed, volume_metrics)
                /\ sleeps' = sleeps + 1
                /\ volume_data' = IF volume_metrics
                                  THEN Append(volume_data, cache_key)
                                  ELSE volume_data
                /\ UNCHANGED cached
    /\ ti' = ti + 1
    /\ UNCHANGED <<script, pc, all_filings, cur, hist, filing_dates, returns,
                   indexStatus, gi, returns_map, df, cache_file, vrun, firstLog>>
    /\ UNCHANGED <<evalVars, dedupVars, surpriseVars, padVars, leakVars,
                   zeroVars, data_filings, ticker_cache, macroVars, laterVars>>

(***************************************************************************)
(* analyze_prefiling_volume: save_cache(cache) after the loop.             *)
(***************************************************************************)
VolumeSave ==
    /\ script = "volume" /\ pc = "loop" /\ ti > Len(df)
    /\ pc' = "done"
    /\ cache_file' = save_cache(cache, cache_file)
    /\ UNCHANGED <<script, ti, all_filings, cur, fetchStatus, hist, filing_dates,
                   returns, priceCalls, sleeps, indexStatus, gi, returns_map>>
    /\ UNCHANGED <<df, cache, fetched, cached, failed, volume_data, vrun, firstLog>>
    /\ UNCHANGED <<evalVars, dedupVars, moreVars>>

(***************************************************************************)
(* A later run of the script over the same CSV: a new process, whose cache *)
(* is what load_cache reads from the file and whose counters start at 0.   *)
(***************************************************************************)
VolumeRunAgain ==
    /\ script = "volume" /\ pc = "done" /\ vrun = 1
    /\ vrun' = 2
    /\ firstLog' = fetchLog
    /\ cache' = load_cache(cache_file)
    /\ pc' = "loop"
    /\ ti' = 1
    /\ fetched' = 0 /\ cached' = 0 /\ failed' = 0
    /\ volume_data' = <<>>
    /\ priceCalls' = [t \in TickerSet |-> 0]
    /\ sleeps' = 0
    /\ fetchStatus' = "none"
    /\ fetchLog' = <<>>
    /\ events' = <<>>
    /\ UNCHANGED <<script, all_filings, cur, hist, filing_dates, returns,
                   indexStatus, gi, returns_map, df, cache_file>>
    /\ UNCHANGED <<evalVars, dedupVars, surpriseVars, padVars, leakVars,
                   zeroVars, data_filings, ticker_cache, macroVars, laterVars>>

(***************************************************************************)
(* extract-real-financial-data.py, extract-financial-metrics.py: what the  *)
(* main loop stores in ticker_cache after get_company_facts returned: the  *)
(* facts, or the None of a failed request.                                 *)
(***************************************************************************)
CacheFacts_OnlySuccess(tc, ticker, ok) ==
    IF ok
    THEN [t \in DOMAIN tc \cup {ticker} |-> IF t = ticker THEN "facts" ELSE tc[t]]
    ELSE tc

CacheFacts(tc, ticker, ok) ==
    [t \in DOMAIN tc \cup {ticker} |->
        IF t = ticker THEN (IF ok THEN "facts" ELSE "None") ELSE tc[t]]

(***************************************************************************)
(* One iteration of the main loop over the filings: a ticker without a CIK *)
(* is skipped, a ticker in ticker_cache uses the cached facts, any other   *)
(* ticker is fetched once and the result is cached.                        *)
(***************************************************************************)
FactsIteration ==
    /\ script = "facts" /\ pc = "loop" /\ ti <= Len(data_filings)
    /\ LET ticker == data_filings[ti]
       IN  IF ticker \notin CIK_MAP \/ ticker \in DOMAIN ticker_cache
           THEN UNCHANGED <<ticker_cache, fetchLog, sleeps, fetchStatus, events>>
           ELSE \E ok \in BOOLEAN :
                /\ fetchLog' = Append(fetchLog, Fetch(ticker, ok))
                /\ events' = events \o <<"call", "sleep">>
                /\ ticker_cache' = CacheFacts(ticker_cache, ticker, ok)
                /\ fetchStatus' = IF ok THEN "ok" ELSE "error"
                /\ sleeps' = sleeps + 1
    /\ ti' = ti + 1
    /\ UNCHANGED <<script, pc, all_filings, cur, hist, filing_dates, returns,
                   priceCalls, indexStatus, gi, returns_map, data_filings>>
    /\ UNCHANGED <<volumeVars, evalVars, dedupVars, surpriseVars, padVars,
                   leakVars, zeroVars, macroVars, laterVars>>

(***************************************************************************)
(* The main loop is over: the script goes on to the surprise calculation.  *)
(***************************************************************************)
FactsDone ==
    /\ script = "facts" /\ pc = "loop" /\ ti > Len(data_filings)
    /\ pc' = "done"
    /\ UNCHANGED <<script, ti, all_filings, cur, fetchStatus, hist, filing_dates,
                   returns, priceCalls, sleeps, indexStatus, gi, returns_map>>
    /\ UNCHANGED <<volumeVars, evalVars, dedupVars, moreVars>>

Next ==
    \/ VolumeIteration
    \/ VolumeSave
    \/ VolumeRunAgain
    \/ FactsIteration
    \/ FactsDone
    \/ FullIteration
    \/ TestIteration
    \/ Emit
    \/ HistCollect
    \/ HistBatchStep
    \/ HistAttach

Spec == Init /\ [][Next]_vars

(***************************************************************************)
(* No collection run: the state of the collection scripts while another    *)
(* script is modelled.                                                     *)
(***************************************************************************)
CollectIdle ==
    /\ script = "none"
    /\ pc = "idle"
    /\ ti = 1
    /\ all_filings = <<>>
    /\ cur = NoTicker
    /\ fetchStatus = "none"
    /\ hist = <<>>
    /\ filing_dates = <<>>
    /\ returns = EmptyDict
    /\ priceCalls = [t \in TickerSet |-> 0]
    /\ sleeps = 0
    /\ indexStatus = "none"
    /\ gi = 1
    /\ returns_map = EmptyDict
    /\ df = <<>>
    /\ cache = {}
    /\ cache_file = {}
    /\ vrun = 1
    /\ firstLog = <<>>
    /\ fetched = 0
    /\ cached = 0
    /\ failed = 0
    /\ volume_data = <<>>

(***************************************************************************)
(* DIRECTION-ACCURACY EVALUATION                                           *)
(*                                                                         *)
(* A value is a number, Val(n), or null: None in a list, NaN in a pandas   *)
(* column or numpy array.                                                  *)
(***************************************************************************)
Val(n) == [null |-> FALSE, num |-> n, den |-> 1]

PredChoices == {Val(0 - 1), Val(0), Val(1)}

ActualChoices == {NULL, Val(0 - 2), Val(0), Val(3)}

PairChoices == [predicted : PredChoices, actual : ActualChoices]

PairLists == UNION {[1..n -> PairChoices] : n \in 1..MaxPairs}

(***************************************************************************)
(* predicted_return = 0.83 of comprehensive-backtest.py.                   *)
(***************************************************************************)
BaselinePrediction == [null |-> FALSE, num |-> 83, den |-> 100]

(***************************************************************************)
(* x > 0 on a pandas column or numpy array: False for NaN.                 *)
(***************************************************************************)
GtZero_ZeroPositive(x) == ~x.null /\ x.num * x.den >= 0

GtZero(x) == ~x.null /\ x.num * x.den > 0

(***************************************************************************)
(* np.sign(a) == np.sign(b): sign is -1, 0 or 1, and NaN for NaN, which    *)
(* equals nothing.                                                         *)
(***************************************************************************)
Sign(x) ==
    IF x.num * x.den > 0 THEN 1 ELSE IF x.num * x.den < 0 THEN 0 - 1 ELSE 0

SignEq(a, b) == ~a.null /\ ~b.null /\ Sign(a) = Sign(b)

(***************************************************************************)
(* (predicted > 0) == (actual > 0)                                         *)
(***************************************************************************)
SameDirection(p) == GtZero(p.predicted) = GtZero(p.actual)

HasNull(ps) == \E k \in 1..Len(ps) : ps[k].actual.null

(***************************************************************************)
(* backtest-with-real-data.py: correct_direction over the whole frame,     *)
(* total = len(filings), correct = correct_direction.sum().                *)
(***************************************************************************)
EvaluateReal(ps) ==
    [state |-> "ok",
     correct |-> Cardinality({k \in 1..Len(ps) : SameDirection(ps[k])}),
     total |-> Len(ps)]

(***************************************************************************)
(* comprehensive-backtest.py: the loop compares the baseline prediction    *)
(* with every actual return; None > 0 raises TypeError, which ends the     *)
(* script before any report.                                               *)
(***************************************************************************)
EvaluateComprehensive(ps) ==
    IF HasNull(ps) THEN [state |-> "crashed", correct |-> 0, total |-> 0]
    ELSE [state |-> "ok",
          correct |-> Cardinality({k \in 1..Len(ps) :
                          GtZero(BaselinePrediction) = GtZero(ps[k].actual)}),
          total |-> Len(ps)]

(***************************************************************************)
(* stepwise-regression.py: the regression is fitted on y first, and the    *)
(* fit raises on a NaN target; then ((y_pred > 0) == (y > 0)).sum() over   *)
(* len(y).                                                                 *)
(***************************************************************************)
EvaluateStepwise(ps) ==
    IF HasNull(ps) THEN [state |-> "crashed", correct |-> 0, total |-> 0]
    ELSE [state |-> "ok",
          correct |-> Cardinality({k \in 1..Len(ps) : SameDirection(ps[k])}),
          total |-> Len(ps)]

(***************************************************************************)
(* train_champion_model.py, ml_analysis.py, ml_analysis_30d.py:            *)
(* direction_accuracy(y_true, y_pred).                                     *)
(***************************************************************************)
direction_accuracy(ps) ==
    [state |-> "ok",
     correct |-> Cardinality({k \in 1..Len(ps) : SignEq(ps[k].actual, ps[k].predicted)}),
     total |-> Len(ps)]

(***************************************************************************)
(* Error statistics.  Absolute errors are in hundredths of a percent, the  *)
(* median in two-hundredths; count is the number of values the mean and    *)
(* the median are taken over, sum their sum.                               *)
(***************************************************************************)
RECURSIVE SortedInts(_)
SortedInts(S) ==
    IF S = {} THEN <<>>
    ELSE LET m == CHOOSE x \in S : \A y \in S : x[1] < y[1] \/ (x[1] = y[1] /\ x[2] <= y[2])
         IN <<m[1]>> \o SortedInts(S \ {m})

RECURSIVE SumSeq(_)
SumSeq(v) == IF v = <<>> THEN 0 ELSE v[1] + SumSeq(Tail(v))

Median2(v) ==
    IF v = <<>> THEN 0
    ELSE IF Len(v) % 2 = 1 THEN 2 * v[(Len(v) + 1) \div 2]
    ELSE v[Len(v) \div 2] + v[Len(v) \div 2 + 1]

(***************************************************************************)
(* abs(predicted - actual), for a predicted value p and a numeric actual.  *)
(***************************************************************************)
AbsError(p, a) ==
    LET d == (p.num * 100) \div p.den - a.num * 100
    IN IF d < 0 THEN 0 - d ELSE d

StatsOver(ps, K) ==
    LET v == SortedInts({<<AbsError(ps[k].predicted, ps[k].actual), k>> : k \in K})
    IN [state |-> "ok", count |-> Len(v), sum |-> SumSeq(v), median |-> Median2(v)]

(***************************************************************************)
(* backtest-with-real-data.py: the error column is NaN where the actual    *)
(* return is NaN, and Series.mean() and Series.median() skip NaN.          *)
(***************************************************************************)
ErrorStatsReal(ps) ==
    StatsOver(ps, {k \in 1..Len(ps) : ~ps[k].actual.null})

(***************************************************************************)
(* comprehensive-backtest.py: the error of every filing is computed in the *)
(* loop, after the direction comparison that raises on None; np.mean and   *)
(* np.median run over the whole list.                                      *)
(***************************************************************************)
ErrorStatsComprehensive(ps) ==
    IF HasNull(ps) THEN [state |-> "crashed", count |-> 0, sum |-> 0, median |-> 0]
    ELSE StatsOver([k \in 1..Len(ps) |->
                       [predicted |-> BaselinePrediction, actual |-> ps[k].actual]],
                   1..Len(ps))

InitEval ==
    /\ CollectIdle
    /\ DedupIdle
    /\ MoreIdle
    /\ pairs \in PairLists
    /\ report = [s \in EvalScripts |-> NotRun]
    /\ errstats = [s \in BacktestScripts |-> NoStats]

RunReal ==
    /\ pairs # <<>> /\ report["real"].state = "none"
    /\ report' = [report EXCEPT !["real"] = EvaluateReal(pairs)]
    /\ errstats' = [errstats EXCEPT !["real"] = ErrorStatsReal(pairs)]
    /\ UNCHANGED <<pairs, collectVars, volumeVars, dedupVars, moreVars>>

RunComprehensive ==
    /\ pairs # <<>> /\ report["comprehensive"].state = "none"
    /\ report' = [report EXCEPT !["comprehensive"] = EvaluateComprehensive(pairs)]
    /\ errstats' = [errstats EXCEPT !["comprehensive"] = ErrorStatsComprehensive(pairs)]
    /\ UNCHANGED <<pairs, collectVars, volumeVars, dedupVars, moreVars>>

RunStepwise ==
    /\ pairs # <<>> /\ report["stepwise"].state = "none"
    /\ report' = [report EXCEPT !["stepwise"] = EvaluateStepwise(pairs)]
    /\ UNCHANGED <<pairs, errstats, collectVars, volumeVars, dedupVars, moreVars>>

RunDirectionAccuracy ==
    /\ pairs # <<>> /\ report["ml"].state = "none"
    /\ report' = [report EXCEPT !["ml"] = direction_accuracy(pairs)]
    /\ UNCHANGED <<pairs, errstats, collectVars, volumeVars, dedupVars, moreVars>>

NextEval ==
    \/ RunReal
    \/ RunComprehensive
    \/ RunStepwise
    \/ RunDirectionAccuracy

SpecEval == InitEval /\ [][NextEval]_vars

(***************************************************************************)
(* DEDUPLICATION AND RETRAINING (fix-duplicates-and-retrain.py)            *)
(*                                                                         *)
(* A row of the CSV: id is its position in the file (its filingId),        *)
(* ret is actual7dReturn in percent.                                       *)
(***************************************************************************)
RetChoices == {5, 0 - 150, 500, 1200}

CsvRows(n) ==
    {[k \in 1..n |-> [id |-> k, ticker |-> f[k].ticker,
                      filingDate |-> f[k].filingDate, ret |-> f[k].ret]] :
        f \in [1..n -> [ticker : TickerSet, filingDate : DateChoices,
                        ret : RetChoices]]}

ticker_date(row) == <<row.ticker, row.filingDate>>

(***************************************************************************)
(* df.sort_values('filingDate'): the default kind is quicksort, which is   *)
(* not stable, so rows of equal filingDate come out in any order.          *)
(***************************************************************************)
sort_values(rows) ==
    {[k \in 1..Len(rows) |-> rows[p[k]]] :
        p \in {q \in [1..Len(rows) -> 1..Len(rows)] :
                  /\ \A a, b \in 1..Len(rows) : a # b => q[a] # q[b]
                  /\ \A a, b \in 1..Len(rows) :
                        a < b => rows[q[a]].filingDate <= rows[q[b]].filingDate}}

RECURSIVE DropSeen(_, _)
DropSeen(rows, seen) ==
    IF rows = <<>> THEN <<>>
    ELSE IF ticker_date(rows[1]) \in seen THEN DropSeen(Tail(rows), seen)
    ELSE <<rows[1]>> \o DropSeen(Tail(rows), seen \cup {ticker_date(rows[1])})

(***************************************************************************)
(* df.drop_duplicates('ticker_date', keep='first')                         *)
(***************************************************************************)
drop_duplicates(rows) == DropSeen(rows, {})

(***************************************************************************)
(* (actual7dReturn > -1.0) & (actual7dReturn < 10.0), in percent.          *)
(***************************************************************************)
NotExtreme(row) == row.ret > 0 - 100 /\ row.ret < 1000

(***************************************************************************)
(* quantile(0.01) and quantile(0.99) with linear interpolation, in         *)
(* hundredths of a percent, for a frame of 1 to 101 rows.                  *)
(***************************************************************************)
lower_bound(rows) ==
    LET v == SortedInts({<<rows[k].ret, k>> : k \in 1..Len(rows)})
        n == Len(rows)
    IN IF n = 1 THEN 100 * v[1]
       ELSE 100 * v[1] + (n - 1) * (v[2] - v[1])

upper_bound(rows) ==
    LET v == SortedInts({<<rows[k].ret, k>> : k \in 1..Len(rows)})
        n == Len(rows)
    IN IF n = 1 THEN 100 * v[1]
       ELSE 100 * v[n - 1] + (100 - (n - 1)) * (v[n] - v[n - 1])

(***************************************************************************)
(* clip(lower=lower_bound, upper=upper_bound); ret becomes hundredths.     *)
(***************************************************************************)
Winsorize(rows) ==
    [k \in 1..Len(rows) |->
        [rows[k] EXCEPT !.ret =
            IF 100 * @ < lower_bound(rows) THEN lower_bound(rows)
            ELSE IF 100 * @ > upper_bound(rows) THEN upper_bound(rows)
            ELSE 100 * @]]

InitDedup ==
    /\ CollectIdle
    /\ EvalIdle
    /\ MoreIdle
    /\ step = "start"
    /\ \E n \in 1..MaxCsv : csv \in CsvRows(n)
    /\ df_sorted = <<>>
    /\ df_dedup = <<>>
    /\ df_no_extremes = <<>>
    /\ df_clean = <<>>

LoadAndSort ==
    /\ step = "start"
    /\ df_sorted' \in sort_values(csv)
    /\ step' = "loaded"
    /\ UNCHANGED <<csv, df_dedup, df_no_extremes, df_clean>>
    /\ UNCHANGED <<collectVars, volumeVars, evalVars, moreVars>>

Deduplicate ==
    /\ step = "loaded"
    /\ df_dedup' = drop_duplicates(df_sorted)
    /\ step' = "deduped"
    /\ UNCHANGED <<csv, df_sorted, df_no_extremes, df_clean>>
    /\ UNCHANGED <<collectVars, volumeVars, evalVars, moreVars>>

RemoveExtremes ==
    /\ step = "deduped"
    /\ df_no_extremes' = SelectSeq(df_dedup, NotExtreme)
    /\ step' = "no_extremes"
    /\ UNCHANGED <<csv, df_sorted, df_dedup, df_clean>>
    /\ UNCHANGED <<collectVars, volumeVars, evalVars, moreVars>>

(***************************************************************************)
(* Winsorize and retrain; with no row left the scaler's fit raises.        *)
(***************************************************************************)
Retrain ==
    /\ step = "no_extremes"
    /\ IF df_no_extremes = <<>>
       THEN step' = "raised" /\ df_clean' = <<>>
       ELSE step' = "trained" /\ df_clean' = Winsorize(df_no_extremes)
    /\ UNCHANGED <<csv, df_sorted, df_dedup, df_no_extremes>>
    /\ UNCHANGED <<collectVars, volumeVars, evalVars, moreVars>>

NextDedup ==
    \/ LoadAndSort
    \/ Deduplicate
    \/ RemoveExtremes
    \/ Retrain

SpecDedup == InitDedup /\ [][NextDedup]_vars

(***************************************************************************)
(* SURPRISE CALCULATION (extract-real-financial-data.py,                   *)
(* extract-financial-metrics.py)                                           *)
(*                                                                         *)
(* One ticker's filings.  A filing reports fiscal period number period     *)
(* (every fourth period closes a year and is reported on a 10-K), and it   *)
(* is filed on the day of that number.  eps is in cents, revenue in        *)
(* millions; 0 stands for a metric that is absent.  The field prior is the *)
(* position of the prior filing the loop picked, 0 if it picked none.      *)
(***************************************************************************)
FilingTypeOf(p) == IF p % QuartersBack = 0 THEN "10-K" ELSE "10-Q"

MetricChoices ==
    {[eps |-> 200, revenue |-> 1999], [eps |-> 210, revenue |-> 2099],
     [eps |-> 190, revenue |-> 0], [eps |-> 0, revenue |-> 0]}

Enriched(p, m) ==
    [period |-> p, filingType |-> FilingTypeOf(p), filingDate |-> p,
     eps |-> m.eps, revenue |-> m.revenue,
     epsSurprise |-> "absent", epsSurpriseMagnitude |-> NULL,
     revenueSurprise |-> "absent", revenueSurpriseMagnitude |-> NULL,
     prior |-> 0]

RECURSIVE NewestFirst(_)
NewestFirst(S) ==
    IF S = {} THEN <<>>
    ELSE LET p == CHOOSE x \in S : \A y \in S : y <= x
         IN <<p>> \o NewestFirst(S \ {p})

(***************************************************************************)
(* The dataset lists a ticker's filings newest first, as the filing index  *)
(* does; any filing may be missing from it.                                *)
(***************************************************************************)
EnrichedLists(S) ==
    LET order == NewestFirst(S)
    IN  {[k \in 1..Len(order) |-> Enriched(order[k], f[order[k]])] :
            f \in [S -> MetricChoices]}

RECURSIVE InsertByDate(_, _)
InsertByDate(sorted, f) ==
    IF sorted = <<>> THEN <<f>>
    ELSE IF f.filingDate < sorted[1].filingDate THEN <<f>> \o sorted
    ELSE <<sorted[1]>> \o InsertByDate(Tail(sorted), f)

RECURSIVE SortByDate(_)
SortByDate(fs) ==
    IF fs = <<>> THEN <<>>
    ELSE InsertByDate(SortByDate(SubSeq(fs, 1, Len(fs) - 1)), fs[Len(fs)])

(***************************************************************************)
(* The prior period of ticker_filings[i]: four positions back for a 10-Q,  *)
(* the nearest earlier 10-K for a 10-K.                                    *)
(***************************************************************************)
PriorIndex(fs, i) ==
    IF fs[i].filingType = "10-Q"
    THEN (IF i - 1 >= QuartersBack THEN i - QuartersBack ELSE 0)
    ELSE LET ks == {j \in 1..(i - 1) : fs[j].filingType = "10-K"}
         IN IF ks = {} THEN 0 ELSE CHOOSE j \in ks : \A k \in ks : k <= j

Abs(x) == IF x < 0 THEN 0 - x ELSE x

(***************************************************************************)
(* ((current - prior) / abs(prior)) * 100                                  *)
(***************************************************************************)
Growth(current, prior) ==
    [null |-> FALSE, num |-> (current - prior) * 100, den |-> Abs(prior)]

Classify(g) ==
    IF g.num > SurpriseThreshold * g.den THEN "beat"
    ELSE IF g.num < (0 - SurpriseThreshold) * g.den THEN "miss"
    ELSE "inline"

(***************************************************************************)
(* round(x, 2): the nearest hundredth, a tie going to the even one.        *)
(***************************************************************************)
Round2(g) ==
    LET n == g.num * 100
        q == n \div g.den
        r == n - q * g.den
    IN [null |-> FALSE,
        num |-> IF 2 * r < g.den THEN q
                ELSE IF 2 * r > g.den THEN q + 1
                ELSE IF q % 2 = 0 THEN q ELSE q + 1,
        den |-> 100]

(***************************************************************************)
(* The magnitude as stored: rounded by extract-real-financial-data.py,     *)
(* as computed by extract-financial-metrics.py.                            *)
(***************************************************************************)
Magnitude(g, s) == IF s = "real" THEN Round2(g) ELSE g

(***************************************************************************)
(* The loop's guard: extract-real-financial-data.py goes on when the       *)
(* filing has an eps, extract-financial-metrics.py when it has an eps and  *)
(* a revenue.                                                              *)
(***************************************************************************)
Considered(f, s) ==
    IF s = "real" THEN f.eps # 0 ELSE f.eps # 0 /\ f.revenue # 0

SurpriseOf_DefaultInline(fs, i, s) ==
    [fs[i] EXCEPT !.epsSurprise = "inline", !.revenueSurprise = "inline"]

(***************************************************************************)
(* One pass of the loop body for ticker_filings[i].                        *)
(***************************************************************************)
SurpriseOf(fs, i, s) ==
    LET f == fs[i]
        pi == IF Considered(f, s) THEN PriorIndex(fs, i) ELSE 0
        doEps == pi # 0 /\ fs[pi].eps # 0
        doRev == pi # 0 /\ f.revenue # 0 /\ fs[pi].revenue # 0
        eg == Growth(f.eps, fs[pi].eps)
        rg == Growth(f.revenue, fs[pi].revenue)
    IN [f EXCEPT
          !.prior = pi,
          !.epsSurprise = IF doEps THEN Classify(eg) ELSE @,
          !.epsSurpriseMagnitude = IF doEps THEN Magnitude(eg, s) ELSE @,
          !.revenueSurprise = IF doRev THEN Classify(rg) ELSE @,
          !.revenueSurpriseMagnitude = IF doRev THEN Magnitude(rg, s) ELSE @]

InitSurprise ==
    /\ CollectIdle
    /\ EvalIdle
    /\ DedupIdle
    /\ PadIdle
    /\ LeakIdle
    /\ ZeroIdle
    /\ RestIdle
    /\ sscript \in {"real", "metrics"}
    /\ \E S \in (SUBSET (1..MaxPeriods)) \ {{}} : enriched_filings \in EnrichedLists(S)
    /\ ticker_filings = <<>>
    /\ sstep = "enriched"

GroupAndSort ==
    /\ sstep = "enriched"
    /\ ticker_filings' = SortByDate(enriched_filings)
    /\ sstep' = "sorted"
    /\ UNCHANGED <<sscript, enriched_filings>>
    /\ UNCHANGED <<collectVars, volumeVars, evalVars, dedupVars, padVars, leakVars, zeroVars,
                   restVars>>

CalculateSurprises ==
    /\ sstep = "sorted"
    /\ ticker_filings' =
          [i \in 1..Len(ticker_filings) |-> SurpriseOf(ticker_filings, i, sscript)]
    /\ sstep' = "done"
    /\ UNCHANGED <<sscript, enriched_filings>>
    /\ UNCHANGED <<collectVars, volumeVars, evalVars, dedupVars, padVars, leakVars, zeroVars,
                   restVars>>

NextSurprise ==
    \/ GroupAndSort
    \/ CalculateSurprises

SpecSurprise == InitSurprise /\ [][NextSurprise]_vars

(***************************************************************************)
(* THE PADDED FETCH ON A CALENDAR WITH WEEKENDS AND HOLIDAYS               *)
(*                                                                         *)
(* Day 0 falls on weekday w (0 = Monday); the market is closed on          *)
(* weekdays 5 and 6 and on the holidays.  The price source holds a row for *)
(* every trading day of 0..CalendarSpan.  Filings are dated on weekdays.    *)
(***************************************************************************)
IsTradingDay(x, w, holidays) == (x + w) % 7 < 5 /\ x \notin holidays

RECURSIVE TradingRows(_, _, _, _)
TradingRows(x, w, holidays, k) ==
    IF x > CalendarSpan THEN <<>>
    ELSE IF IsTradingDay(x, w, holidays)
    THEN <<[date |-> x, close |-> ClosePattern(1, k)]>>
             \o TradingRows(x + 1, w, holidays, k + 1)
    ELSE TradingRows(x + 1, w, holidays, k)

HolidaySets ==
    {H \in SUBSET (0..CalendarSpan) : Cardinality(H) <= MaxHolidays}

(***************************************************************************)
(* The fetch of the batch function and, per filing date, the rows the      *)
(* return is computed from.                                                *)
(***************************************************************************)
PaddedFetch(s, market, dates) ==
    IF s = "full"
    THEN History(market, MinOf(dates), MaxOf(dates) + HorizonDays + PadFull)
    ELSE IF s = "hist"
    THEN History(market, MinOf(dates), MaxOf(dates) + HorizonDays + PadHist)
    ELSE History(market, MinOf(dates), MaxOf(dates) + PadTest)

WindowOf(s, h, d) == IF s = "test" THEN FilingHist(h, d) ELSE RowsFrom(h, d)

InitPad ==
    /\ CollectIdle
    /\ EvalIdle
    /\ DedupIdle
    /\ SurpriseIdle
    /\ LeakIdle
    /\ ZeroIdle
    /\ RestIdle
    /\ pscript \in {"full", "hist", "test"}
    /\ pdates \in DateLists \ {<<>>}
    /\ calendar \in
          {TradingRows(0, w, H, 1) :
              w \in {v \in 0..4 : \A k \in 1..Len(pdates) : (pdates[k] + v) % 7 < 5},
              H \in HolidaySets}
    /\ phist = <<>>
    /\ pwindows = EmptyDict
    /\ pstep = "start"

FetchPadded ==
    /\ pstep = "start"
    /\ phist' = PaddedFetch(pscript, calendar, pdates)
    /\ pstep' = "fetched"
    /\ UNCHANGED <<pscript, calendar, pdates, pwindows>>
    /\ UNCHANGED <<collectVars, volumeVars, evalVars, dedupVars, surpriseVars, leakVars, zeroVars,
                   restVars>>

TakeWindows ==
    /\ pstep = "fetched"
    /\ pwindows' = [d \in Range(pdates) |-> WindowOf(pscript, phist, d)]
    /\ pstep' = "done"
    /\ UNCHANGED <<pscript, calendar, pdates, phist>>
    /\ UNCHANGED <<collectVars, volumeVars, evalVars, dedupVars, surpriseVars, leakVars, zeroVars,
                   restVars>>

NextPad ==
    \/ FetchPadded
    \/ TakeWindows

SpecPad == InitPad /\ [][NextPad]_vars

(***************************************************************************)
(* THE OPTIMIZED BACKTEST (backtest-v3-optimized.py), RUN TWICE            *)
(*                                                                         *)
(* Two runs of the script on datasets of one filing that differ at most in *)
(* the filing's actual7dReturn.  The generator is seeded with the same     *)
(* constant in both, so both see the same draws.  Returns are in percent,  *)
(* scores and predictions in ten-thousandths, a draw of random() in        *)
(* hundredths.                                                             *)
(***************************************************************************)
LeakRows ==
    [market_cap : {80, 280, 600, 3800},
     regime : {"bull", "bear", "flat"},
     epsSurprise : {"absent", "beat", "miss", "inline"},
     epsSurpriseMagnitude : {0 - 12, 0, 12},
     revenueSurprise : {"absent", "beat", "miss"}]

LeakActuals == {0 - 3, 0, 3}

DrawChoices == {0, 50}

(***************************************************************************)
(* np.random.uniform(low, high) for a draw u of the generator.             *)
(***************************************************************************)
Uniform(low, high, u) == low + ((high - low) * u) \div 100

simulate_sentiment_and_risk(actual_return, draws) ==
    [sentiment |->
        IF actual_return > 2 THEN Uniform(2000, 8000, draws[1])
        ELSE IF actual_return < 0 - 2 THEN Uniform(0 - 8000, 0 - 2000, draws[1])
        ELSE Uniform(0 - 3000, 3000, draws[1]),
     risk_delta |->
        IF actual_return < 0 - 2 THEN Uniform(5000, 25000, draws[2])
        ELSE IF actual_return > 2 THEN Uniform(0 - 25000, 0 - 5000, draws[2])
        ELSE Uniform(0 - 10000, 10000, draws[2])]

CapEffect(row) ==
    IF row.market_cap < 200 THEN 0 - 5000
    ELSE IF row.market_cap < 500
    THEN 10000 + (IF row.regime = "bull" THEN 5000 ELSE 0)
    ELSE IF row.market_cap < 1000 THEN 3000
    ELSE 5000

EpsEffect(row) ==
    IF row.epsSurprise = "beat"
    THEN 10000 + (IF row.epsSurpriseMagnitude > 10 THEN 8000 ELSE 0)
    ELSE IF row.epsSurprise = "miss"
    THEN 0 - 10000 - (IF row.epsSurpriseMagnitude < 0 - 10 THEN 7000 ELSE 0)
    ELSE IF row.epsSurprise = "inline" THEN 6000
    ELSE 0

RevenueEffect(row) ==
    IF row.revenueSurprise = "beat" THEN 8000
    ELSE IF row.revenueSurprise = "miss" THEN 0 - 15000
    ELSE 0

Dampen(row, prediction) ==
    IF row.regime = "bull" /\ prediction < 0 THEN (prediction * 3) \div 10
    ELSE IF row.regime = "bear" /\ prediction > 0 THEN (prediction * 5) \div 10
    ELSE prediction

predict_with_optimized_model(row, scores) ==
    Dampen(row, 8300 - (scores.risk_delta * 8) \div 10 + scores.sentiment * 5
                  + CapEffect(row) + EpsEffect(row) + RevenueEffect(row))

InitLeak ==
    /\ CollectIdle
    /\ EvalIdle
    /\ DedupIdle
    /\ SurpriseIdle
    /\ PadIdle
    /\ ZeroIdle
    /\ RestIdle
    /\ lrow \in LeakRows
    /\ lactual \in [1..2 -> LeakActuals]
    /\ ldraws \in [1..2 -> DrawChoices]
    /\ lscores = <<>>
    /\ lpred = <<>>
    /\ lstep = "loaded"

SimulateScores ==
    /\ lstep = "loaded"
    /\ lscores' = [r \in 1..2 |-> simulate_sentiment_and_risk(lactual[r], ldraws)]
    /\ lstep' = "simulated"
    /\ UNCHANGED <<lrow, lactual, ldraws, lpred>>
    /\ UNCHANGED <<collectVars, volumeVars, evalVars, dedupVars, surpriseVars, padVars, zeroVars,
                   restVars>>

GeneratePredictions ==
    /\ lstep = "simulated"
    /\ lpred' = [r \in 1..2 |-> predict_with_optimized_model(lrow, lscores[r])]
    /\ lstep' = "scored"
    /\ UNCHANGED <<lrow, lactual, ldraws, lscores>>
    /\ UNCHANGED <<collectVars, volumeVars, evalVars, dedupVars, surpriseVars, padVars, zeroVars,
                   restVars>>

NextLeak ==
    \/ SimulateScores
    \/ GeneratePredictions

SpecLeak == InitLeak /\ [][NextLeak]_vars

(***************************************************************************)
(* HANDLING OF MISSING, NULL AND UNPARSEABLE INPUT VALUES                  *)
(*                                                                         *)
(* An input value is a number, null (None, NaN), a text that is not a      *)
(* number, or missing (the key or column is not there).  What a function   *)
(* makes of it is a number, null, absent (the field is left out), or       *)
(* raised (an exception left the function).                                *)
(***************************************************************************)
Missing == [kind |-> "missing", val |-> 0]

Null == [kind |-> "null", val |-> 0]

Unparseable == [kind |-> "unparseable", val |-> 0]

Number(n) == [kind |-> "number", val |-> n]

Raised == [kind |-> "raised", val |-> 0]

Absent == [kind |-> "absent", val |-> 0]

InputChoices == {Missing, Null, Unparseable, Number(0), Number(7)}

InputLists == UNION {[1..n -> InputChoices] : n \in 1..MaxFields}

Position(ins, kind) ==
    LET K == {k \in 1..Len(ins) : ins[k].kind = kind}
    IN IF K = {} THEN 0 ELSE CHOOSE k \in K : \A j \in K : k <= j

(***************************************************************************)
(* predict_single_filing.py, predict_filing: a required feature that is    *)
(* not among the filing's keys is added as 0.0, fillna(0) turns None and   *)
(* NaN into 0, and scaler.transform raises on a text.                      *)
(***************************************************************************)
predict_filing(features) ==
    IF Position(features, "unparseable") # 0
    THEN [k \in 1..Len(features) |-> Raised]
    ELSE [k \in 1..Len(features) |->
            IF features[k].kind = "number" THEN features[k] ELSE Number(0)]

(***************************************************************************)
(* extract-financial-metrics.py, extract_metrics_for_filing: the 'val' of  *)
(* the matching items of eps, revenue and net income, in this order.       *)
(* float(item.get('val', 0)) is 0.0 when the key is missing and raises on  *)
(* None and on a text; the handler around the three extractions then       *)
(* leaves that metric and the later ones None.                             *)
(***************************************************************************)
extract_metrics_for_filing(vals) ==
    LET bad == {k \in 1..Len(vals) : vals[k].kind \in {"null", "unparseable"}}
    IN [k \in 1..Len(vals) |->
          IF \E j \in bad : j <= k THEN Null
          ELSE IF vals[k].kind = "missing" THEN Number(0)
          ELSE vals[k]]

(***************************************************************************)
(* fix-duplicates-and-retrain.py: X = df_clean[available_features]         *)
(* .fillna(0).  A feature whose column is missing is not among             *)
(* available_features, a NaN becomes 0, and the scaler raises on a text.   *)
(***************************************************************************)
PrepareFeatures(cols) ==
    IF Position(cols, "unparseable") # 0
    THEN [k \in 1..Len(cols) |-> Raised]
    ELSE [k \in 1..Len(cols) |->
            IF cols[k].kind = "missing" THEN Absent
            ELSE IF cols[k].kind = "null" THEN Number(0)
            ELSE cols[k]]

InitZero ==
    /\ CollectIdle
    /\ EvalIdle
    /\ DedupIdle
    /\ SurpriseIdle
    /\ PadIdle
    /\ LeakIdle
    /\ RestIdle
    /\ zsite \in {"predict", "metrics", "retrain"}
    /\ zin \in InputLists
    /\ zout = <<>>
    /\ zstep = "input"

RunPredictFiling ==
    /\ zsite = "predict" /\ zstep = "input"
    /\ zout' = predict_filing(zin)
    /\ zstep' = "done"
    /\ UNCHANGED <<zsite, zin>>
    /\ UNCHANGED <<collectVars, volumeVars, evalVars, dedupVars,
                   surpriseVars, padVars, leakVars,
                   restVars>>

RunExtractMetrics ==
    /\ zsite = "metrics" /\ zstep = "input"
    /\ zout' = extract_metrics_for_filing(zin)
    /\ zstep' = "done"
    /\ UNCHANGED <<zsite, zin>>
    /\ UNCHANGED <<collectVars, volumeVars, evalVars, dedupVars,
                   surpriseVars, padVars, leakVars,
                   restVars>>

RunPrepareFeatures ==
    /\ zsite = "retrain" /\ zstep = "input"
    /\ zout' = PrepareFeatures(zin)
    /\ zstep' = "done"
    /\ UNCHANGED <<zsite, zin>>
    /\ UNCHANGED <<collectVars, volumeVars, evalVars, dedupVars,
                   surpriseVars, padVars, leakVars,
                   restVars>>

NextZero ==
    \/ RunPredictFiling
    \/ RunExtractMetrics
    \/ RunPrepareFeatures

SpecZero == InitZero /\ [][NextZero]_vars

(***************************************************************************)
(* MACRO INDICATORS                                                        *)
(*                                                                         *)
(* fetch-macro-indicators-enhanced.py, fetch_enhanced_macro_indicators.    *)
(* A history call raises or returns a frame of some length; result is the  *)
(* set of keys the result dict holds.                                      *)
(***************************************************************************)
Window7 == 7
Window14 == 14
Window21 == 21
Window30 == 30

LenChoices == {0, 10, 30}

Raise == [raise |-> TRUE, len |-> 0]

Frame(n) == [raise |-> FALSE, len |-> n]

HistoryChoices == {Raise} \cup {Frame(n) : n \in LenChoices}

sectors ==
    << [ticker |-> "XLK", field_name |-> "techSectorReturn30d"],
       [ticker |-> "XLF", field_name |-> "financialSectorReturn30d"],
       [ticker |-> "XLE", field_name |-> "energySectorReturn30d"],
       [ticker |-> "XLV", field_name |-> "healthcareSectorReturn30d"] >>

(***************************************************************************)
(* Lines 42-74: the keys the SPY block adds for a frame of n rows.         *)
(***************************************************************************)
SpyFields(n) ==
    IF n > 0 /\ n >= Window30
    THEN {"spxClose", "shortTermMomentum"}
         \cup (IF n >= Window7 THEN {"spxReturn7d"} ELSE {})
         \cup (IF n >= Window14 THEN {"spxReturn14d"} ELSE {})
         \cup (IF n >= Window21 THEN {"spxReturn21d"} ELSE {})
         \cup (IF n >= Window30 THEN {"spxReturn30d"} ELSE {})
    ELSE {}

(***************************************************************************)
(* Lines 81-85: the keys the VIX block adds.                               *)
(***************************************************************************)
VixFields(n) ==
    IF n > 0
    THEN {"vixClose"} \cup (IF n >= Window30 THEN {"vixMA30"} ELSE {})
    ELSE {}

(***************************************************************************)
(* Lines 97-103 and 110-122: the Treasury blocks; a raise is caught and    *)
(* adds nothing.                                                           *)
(***************************************************************************)
Treasury3mFields(h) ==
    IF ~h.raise /\ h.len > 0 THEN {"treasury3m"} ELSE {}

Treasury10yFields(h) ==
    IF ~h.raise /\ h.len > 0
    THEN {"treasury10y"}
         \cup (IF h.len >= Window30 THEN {"treasury10yChange30d"} ELSE {})
    ELSE {}

(***************************************************************************)
(* Lines 125-159: the 2-year estimate and the keys derived from the rates. *)
(***************************************************************************)
Treasury2yFields(h, res) ==
    IF ~h.raise /\ h.len > 0 /\ "treasury10y" \in res
    THEN {"treasury2y"}
    ELSE {}

DerivedRateFields(res) ==
    (IF "treasury10y" \in res /\ "treasury2y" \in res
     THEN {"yieldCurve2y10y", "yieldCurveStatus"} ELSE {})
    \cup (IF "treasury3m" \in res THEN {"fedFundsRate"} ELSE {})
    \cup (IF "treasury10y" \in res /\ "treasury10yChange30d" \in res
          THEN {"rateTrend"} ELSE {})

(***************************************************************************)
(* Lines 166-191: the keys the DXY block adds.                             *)
(***************************************************************************)
DxyFields(n) ==
    IF n > 0 /\ n >= Window30
    THEN {"dollarIndex", "dollar30dChange", "dollarVsYearAvg",
          "dollarStrength", "equityFlowBias"}
    ELSE {}

(***************************************************************************)
(* Lines 208-210: the key one sector ETF adds; a raise is caught.          *)
(***************************************************************************)
SectorFields(h, k) ==
    IF ~h.raise /\ h.len > 0 /\ h.len >= Window30
    THEN {sectors[k].field_name}
    ELSE {}

(***************************************************************************)
(* Lines 252-255: the summary line formats result.get(key, 'N/A') with a   *)
(* float format for these keys; formatting the text 'N/A' raises           *)
(* ValueError.                                                             *)
(***************************************************************************)
PrintedFields == {"spxReturn7d", "treasury10y", "vixClose"}

PrintRaises(res) == \E f \in PrintedFields : f \notin res

(***************************************************************************)
(* Lines 259-263: the dict of the outer handler.                           *)
(***************************************************************************)
Failure == [success |-> FALSE, fields |-> {"success", "error"}]

InitMacro ==
    /\ CollectIdle
    /\ EvalIdle
    /\ DedupIdle
    /\ SurpriseIdle
    /\ PadIdle
    /\ LeakIdle
    /\ ZeroIdle
    /\ FactsIdle
    /\ RateIdle
    /\ LaterIdle
    /\ mstep = "spy"
    /\ result = {"success", "date"}
    /\ sector_i = 1
    /\ fetchRaised = FALSE
    /\ macro_out = NoOutput

nonMacroVars == <<collectVars, volumeVars, evalVars, dedupVars, surpriseVars,
                  padVars, leakVars, zeroVars, factsVars, rateVars, laterVars>>

(***************************************************************************)
(* A history call outside any inner try raised: the outer handler returns  *)
(* the failure dict.                                                       *)
(***************************************************************************)
OuterHandler ==
    /\ fetchRaised' = TRUE
    /\ macro_out' = Failure
    /\ mstep' = "done"
    /\ UNCHANGED <<result, sector_i>>

FetchSpy ==
    /\ mstep = "spy"
    /\ \E h \in HistoryChoices :
         IF h.raise
         THEN OuterHandler
         ELSE /\ result' = result \cup SpyFields(h.len)
              /\ mstep' = "vix"
              /\ UNCHANGED <<sector_i, fetchRaised, macro_out>>
    /\ UNCHANGED nonMacroVars

FetchVix ==
    /\ mstep = "vix"
    /\ \E h \in HistoryChoices :
         IF h.raise
         THEN OuterHandler
         ELSE /\ result' = result \cup VixFields(h.len)
              /\ mstep' = "t3m"
              /\ UNCHANGED <<sector_i, fetchRaised, macro_out>>
    /\ UNCHANGED nonMacroVars

FetchTreasury3m ==
    /\ mstep = "t3m"
    /\ \E h \in HistoryChoices :
         result' = result \cup Treasury3mFields(h)
    /\ mstep' = "t10y"
    /\ UNCHANGED <<sector_i, fetchRaised, macro_out>>
    /\ UNCHANGED nonMacroVars

FetchTreasury10y ==
    /\ mstep = "t10y"
    /\ \E h \in HistoryChoices :
         result' = result \cup Treasury10yFields(h)
    /\ mstep' = "ief"
    /\ UNCHANGED <<sector_i, fetchRaised, macro_out>>
    /\ UNCHANGED nonMacroVars

FetchIef ==
    /\ mstep = "ief"
    /\ \E h \in HistoryChoices :
         LET with2y == result \cup Treasury2yFields(h, result)
         IN  result' = with2y \cup DerivedRateFields(with2y)
    /\ mstep' = "dxy"
    /\ UNCHANGED <<sector_i, fetchRaised, macro_out>>
    /\ UNCHANGED nonMacroVars

FetchDxy ==
    /\ mstep = "dxy"
    /\ \E h \in HistoryChoices :
         IF h.raise
         THEN OuterHandler
         ELSE /\ result' = result \cup DxyFields(h.len)
              /\ mstep' = "sectors"
              /\ UNCHANGED <<sector_i, fetchRaised, macro_out>>
    /\ UNCHANGED nonMacroVars

FetchSector ==
    /\ mstep = "sectors" /\ sector_i <= Len(sectors)
    /\ \E h \in HistoryChoices :
         result' = result \cup SectorFields(h, sector_i)
    /\ sector_i' = sector_i + 1
    /\ UNCHANGED <<mstep, fetchRaised, macro_out>>
    /\ UNCHANGED nonMacroVars

(***************************************************************************)
(* Lines 214-263: the regime is classified from whatever is present, the   *)
(* summary line is printed and the result is returned; when the print      *)
(* raises, the outer handler returns the failure dict instead.             *)
(***************************************************************************)
ClassifyAndReturn ==
    /\ mstep = "sectors" /\ sector_i > Len(sectors)
    /\ result' = result \cup {"marketRegime"}
    /\ macro_out' = IF PrintRaises(result')
                    THEN Failure
                    ELSE [success |-> TRUE, fields |-> result']
    /\ mstep' = "done"
    /\ UNCHANGED <<sector_i, fetchRaised>>
    /\ UNCHANGED nonMacroVars

NextMacro ==
    \/ FetchSpy
    \/ FetchVix
    \/ FetchTreasury3m
    \/ FetchTreasury10y
    \/ FetchIef
    \/ FetchDxy
    \/ FetchSector
    \/ ClassifyAndReturn

SpecMacro == InitMacro /\ [][NextMacro]_vars

(***************************************************************************)
(* RETURN CALCULATOR, CALLED TWICE                                         *)
(*                                                                         *)
(* calc_returns_batch and calculate_stock_returns_batch read the list of   *)
(* filing dates with a for loop, which visits every element and leaves the *)
(* caller's list as it was; returns and returns_map are created in the     *)
(* call.  The mutant consumes the list while visiting it.                  *)
(***************************************************************************)
IterateDates_Pop(dates) == [visited |-> dates, left |-> <<>>]

IterateDates(dates) == [visited |-> dates, left |-> dates]

DayChoices == {3, HorizonDays}

ReturnCalculator(scr, dates, days, market) ==
    LET it == IterateDates(dates)
        seen == it.visited
    IN  [out |-> IF scr = "full"
                 THEN calc_returns_batch(seen, days, market, FALSE).returns
                 ELSE IF seen = <<>> THEN EmptyDict
                 ELSE ReturnsHist(History(market, MinOf(seen),
                                          MaxOf(seen) + days + PadHist),
                                  seen, days),
         dates |-> it.left]

nonPureVars == <<baseVars, selectVars, extractVars, predictVars, qualityVars>>

InitPure ==
    /\ CollectIdle
    /\ EvalIdle
    /\ DedupIdle
    /\ SurpriseIdle /\ PadIdle /\ LeakIdle /\ ZeroIdle
    /\ FactsIdle /\ MacroIdle /\ RateIdle
    /\ QualityIdle
    /\ PredictIdle
    /\ ExtractIdle
    /\ SelectIdle
    /\ rscript \in {"full", "hist"}
    /\ rdates \in DateLists
    /\ rdays \in DayChoices
    /\ rseries \in SeriesChoices
    /\ rout = <<>>

(***************************************************************************)
(* One call of the return calculator with the caller's list, horizon and   *)
(* the price series of the source.                                         *)
(***************************************************************************)
CallReturnCalculator ==
    /\ rscript \in {"full", "hist"} /\ Len(rout) < 2
    /\ LET r == ReturnCalculator(rscript, rdates, rdays, rseries)
       IN  /\ rout' = Append(rout, r.out)
           /\ rdates' = r.dates
    /\ UNCHANGED <<rscript, rdays, rseries>>
    /\ UNCHANGED nonPureVars

(***************************************************************************)
(* The caller goes on after the second call.                               *)
(***************************************************************************)
PureDone ==
    /\ rscript \in {"full", "hist"} /\ Len(rout) = 2
    /\ rscript' = "done"
    /\ UNCHANGED <<rdates, rdays, rseries, rout>>
    /\ UNCHANGED nonPureVars

NextPure ==
    \/ CallReturnCalculator
    \/ PureDone

SpecPure == InitPure /\ [][NextPure]_vars

(***************************************************************************)
(* MODEL SELECTION                                                         *)
(*                                                                         *)
(* ml_analysis.py and train_champion_model.py, main: the candidates in the *)
(* order of the models dict, each name as its words, and the estimator     *)
(* class cross-validated under the name.                                   *)
(***************************************************************************)
models ==
    << [name |-> <<"Linear", "(OLS)">>,   estimator |-> "LinearRegression"],
       [name |-> <<"Ridge", "(L2)">>,     estimator |-> "Ridge"],
       [name |-> <<"Lasso", "(L1)">>,     estimator |-> "Lasso"],
       [name |-> <<"ElasticNet">>,        estimator |-> "ElasticNet"],
       [name |-> <<"RandomForest">>,      estimator |-> "RandomForestRegressor"],
       [name |-> <<"GradientBoosting">>,  estimator |-> "GradientBoostingRegressor"] >>

AccChoices == {50, 60}

(***************************************************************************)
(* max(results, key=direction_accuracy): the first result with the highest *)
(* accuracy.                                                               *)
(***************************************************************************)
BestOf(accs) ==
    CHOOSE i \in 1..Len(accs) :
        /\ \A j \in 1..Len(accs) : accs[j] <= accs[i]
        /\ \A j \in 1..(i - 1) : accs[j] < accs[i]

(***************************************************************************)
(* best_result['model_name'].split()[0]                                    *)
(***************************************************************************)
FirstWord(name) == name[1]

(***************************************************************************)
(* ml_analysis.py, train_final_model: the estimator built for best_model.  *)
(***************************************************************************)
train_final_model_ml(best_model) ==
    IF best_model = "Ridge" THEN "Ridge"
    ELSE IF best_model = "Lasso" THEN "Lasso"
    ELSE IF best_model = "ElasticNet" THEN "ElasticNet"
    ELSE IF best_model = "RandomForest" THEN "RandomForestRegressor"
    ELSE IF best_model = "XGBoost" THEN "GradientBoostingRegressor"
    ELSE "LinearRegression"

(***************************************************************************)
(* train_champion_model.py, train_final_model.                             *)
(***************************************************************************)
train_final_model(model_type) ==
    IF model_type = "Ridge" THEN "Ridge"
    ELSE IF model_type = "Lasso" THEN "Lasso"
    ELSE IF model_type = "ElasticNet" THEN "ElasticNet"
    ELSE IF model_type = "RandomForest" THEN "RandomForestRegressor"
    ELSE IF model_type = "GradientBoosting" THEN "GradientBoostingRegressor"
    ELSE "LinearRegression"

(***************************************************************************)
(* The estimator fitted per market-cap segment: ml_analysis.py tests the   *)
(* start of the winner's name, train_champion_model.py tests model_type.   *)
(***************************************************************************)
SegmentModel(scr, name) ==
    IF FirstWord(name) = "Ridge" THEN "Ridge"
    ELSE IF FirstWord(name) = "RandomForest" THEN "RandomForestRegressor"
    ELSE IF scr = "champion" /\ FirstWord(name) = "GradientBoosting"
         THEN "GradientBoostingRegressor"
    ELSE "LinearRegression"

nonSelectVars == <<baseVars, pureVars, extractVars, predictVars, qualityVars>>

InitSelect ==
    /\ CollectIdle
    /\ EvalIdle
    /\ DedupIdle
    /\ SurpriseIdle /\ PadIdle /\ LeakIdle /\ ZeroIdle
    /\ FactsIdle /\ MacroIdle /\ RateIdle
    /\ QualityIdle
    /\ PredictIdle
    /\ ExtractIdle
    /\ PureIdle
    /\ tscript \in {"ml_analysis", "champion"}
    /\ cv_results \in [1..Len(models) -> AccChoices]
    /\ best_result = 0
    /\ final_model = "none"
    /\ segment_model = "none"
    /\ tstep = "evaluated"

SelectBest ==
    /\ tstep = "evaluated"
    /\ best_result' = BestOf(cv_results)
    /\ tstep' = "selected"
    /\ UNCHANGED <<tscript, cv_results, final_model, segment_model>>
    /\ UNCHANGED nonSelectVars

TrainFinal ==
    /\ tstep = "selected"
    /\ final_model' = IF tscript = "ml_analysis"
                      THEN train_final_model_ml(FirstWord(models[best_result].name))
                      ELSE train_final_model(FirstWord(models[best_result].name))
    /\ tstep' = "trained"
    /\ UNCHANGED <<tscript, cv_results, best_result, segment_model>>
    /\ UNCHANGED nonSelectVars

SegmentAnalysis ==
    /\ tstep = "trained"
    /\ segment_model' = SegmentModel(tscript, models[best_result].name)
    /\ tstep' = "done"
    /\ UNCHANGED <<tscript, cv_results, best_result, final_model>>
    /\ UNCHANGED nonSelectVars

NextSelect ==
    \/ SelectBest
    \/ TrainFinal
    \/ SegmentAnalysis

SpecSelect == InitSelect /\ [][NextSelect]_vars

(***************************************************************************)
(* METRIC EXTRACTION (extract-real-financial-data.py)                      *)
(*                                                                         *)
(* One filing, of accession number OwnAccn, and the facts of its company.  *)
(* company_facts[m] lists the items that find_metric_for_filing walks      *)
(* through for metric m, in the order of its three loops (tag, unit,       *)
(* item).  An item has the accession number it was reported with and a     *)
(* val, which may be None (present = FALSE).  An eps val is in thousandths *)
(* of a dollar, a revenue and a net income in dollars; the stored eps is   *)
(* in hundredths of a dollar, the stored revenue and net income in         *)
(* hundredths of a million.                                                *)
(***************************************************************************)
OwnAccn == 1

OtherAccn == 2

Item(accn, present, val) == [accn |-> accn, present |-> present, val |-> val]

ReportedValue(m) ==
    IF m = "eps" THEN 1504 ELSE IF m = "revenue" THEN 150000000 ELSE 0 - 25004000

ItemChoices(m) ==
    {Item(OtherAccn, TRUE, ReportedValue(m)), Item(OwnAccn, FALSE, 0),
     Item(OwnAccn, TRUE, 0), Item(OwnAccn, TRUE, ReportedValue(m))}

ItemLists(m) == UNION {[1..n -> ItemChoices(m)] : n \in 0..MaxItems}

(***************************************************************************)
(* find_metric_for_filing: the val of the first item of the filing's       *)
(* accession number whose val is not None, or None.                        *)
(***************************************************************************)
find_metric_for_filing(items, accession_num) ==
    LET hits == {i \in 1..Len(items) :
                    items[i].accn = accession_num /\ items[i].present}
    IN  IF hits = {} THEN [none |-> TRUE, val |-> 0]
        ELSE [none |-> FALSE,
              val |-> items[CHOOSE i \in hits : \A j \in hits : i <= j].val]

(***************************************************************************)
(* round(n / d, 2) in hundredths for d = 100 * unit: the nearest           *)
(* hundredth, a tie going to the even one.                                 *)
(***************************************************************************)
RoundDiv(n, d) ==
    LET q == n \div d
        r == n - q * d
    IN  IF 2 * r < d THEN q
        ELSE IF 2 * r > d THEN q + 1
        ELSE IF q % 2 = 0 THEN q ELSE q + 1

(***************************************************************************)
(* `if eps:', `if revenue:', `if net_income:' of extract_financials: None  *)
(* and 0.0 are both false.                                                 *)
(***************************************************************************)
Truthy(found) == ~found.none /\ found.val # 0

Scale(m) == IF m = "eps" THEN 10 ELSE 10000

KeyOf(m, facts) ==
    LET found == find_metric_for_filing(facts[m], OwnAccn)
    IN  IF Truthy(found)
        THEN [has |-> TRUE, val |-> RoundDiv(found.val, Scale(m))]
        ELSE NoKey

extract_financials(facts) ==
    LET eps == KeyOf("eps", facts)
        revenue == KeyOf("revenue", facts)
        net_income == KeyOf("netIncome", facts)
    IN  IF eps.has \/ revenue.has \/ net_income.has
        THEN [none |-> FALSE, eps |-> eps, revenue |-> revenue,
              netIncome |-> net_income]
        ELSE NoMetrics

nonExtractVars == <<baseVars, pureVars, selectVars, predictVars, qualityVars>>

InitExtract ==
    /\ CollectIdle
    /\ EvalIdle
    /\ DedupIdle
    /\ SurpriseIdle /\ PadIdle /\ LeakIdle /\ ZeroIdle
    /\ FactsIdle /\ MacroIdle /\ RateIdle
    /\ QualityIdle
    /\ PredictIdle
    /\ PureIdle
    /\ SelectIdle
    /\ \E e \in ItemLists("eps"), r \in ItemLists("revenue"),
          n \in ItemLists("netIncome") :
          company_facts = [m \in MetricNames |->
                             IF m = "eps" THEN e ELSE IF m = "revenue" THEN r ELSE n]
    /\ metrics = NoMetrics
    /\ enriched_filing = [hasRealFinancials |-> FALSE, realFinancials |-> NoMetrics]
    /\ xstep = "facts"

(***************************************************************************)
(* metrics = extract_financials(filing, company_facts)                     *)
(***************************************************************************)
ExtractMetrics ==
    /\ xstep = "facts"
    /\ metrics' = extract_financials(company_facts)
    /\ xstep' = "extracted"
    /\ UNCHANGED <<company_facts, enriched_filing>>
    /\ UNCHANGED nonExtractVars

(***************************************************************************)
(* enriched_filing = filing.copy(); realFinancials is set when metrics is  *)
(* not None; the filing is appended.                                       *)
(***************************************************************************)
EnrichFiling ==
    /\ xstep = "extracted"
    /\ enriched_filing' = [hasRealFinancials |-> ~metrics.none,
                           realFinancials |-> metrics]
    /\ xstep' = "done"
    /\ UNCHANGED <<company_facts, metrics>>
    /\ UNCHANGED nonExtractVars

NextExtract ==
    \/ ExtractMetrics
    \/ EnrichFiling

SpecExtract == InitExtract /\ [][NextExtract]_vars

(***************************************************************************)
(* BASELINE PREDICTION (predict_baseline.py)                               *)
(*                                                                         *)
(* A probability is counted in ten-thousandths inside predict() and in     *)
(* thousandths once it is rounded for the result.                          *)
(***************************************************************************)
ProbaUnit == 10000

BuyFull == 65

BuyHalf == 55

ShortHalf == 35

HoldLow == 45

(***************************************************************************)
(* confidence >= t / 100 and confidence <= t / 100 for a confidence of     *)
(* c / unit.                                                               *)
(***************************************************************************)
AtLeast(c, unit, t) == c * 100 >= t * unit

AtMost(c, unit, t) == c * 100 <= t * unit

get_recommendation(c, unit) ==
    IF AtLeast(c, unit, BuyFull)
    THEN Recommendation("BUY", "FULL", "High confidence bullish signal")
    ELSE IF AtLeast(c, unit, BuyHalf)
    THEN Recommendation("BUY", "HALF", "Moderate confidence bullish signal")
    ELSE IF AtMost(c, unit, ShortHalf)
    THEN Recommendation("SHORT", "HALF", "Low confidence suggests bearish outcome")
    ELSE IF AtMost(c, unit, HoldLow)
    THEN Recommendation("HOLD", "SMALL", "Low confidence, small position or skip")
    ELSE Recommendation("HOLD", "SMALL", "Neutral confidence")

(***************************************************************************)
(* The probabilities the model may give: those within NearThreshold        *)
(* ten-thousandths of one of the four thresholds.                          *)
(***************************************************************************)
NearThreshold == 12

ProbaChoices ==
    {t * 100 + d : t \in {ShortHalf, HoldLow, BuyHalf, BuyFull},
                   d \in (0 - NearThreshold)..NearThreshold}

(***************************************************************************)
(* predict(): the recommendation is taken from the confidence, the         *)
(* confidence is then rounded to three decimals for the result.            *)
(***************************************************************************)
predict(prediction, confidence) ==
    [prediction |-> prediction,
     confidence |-> RoundDiv(confidence, 10),
     recommendation |-> get_recommendation(confidence, ProbaUnit)]

nonPredictVars == <<baseVars, pureVars, selectVars, extractVars, qualityVars>>

InitPredict ==
    /\ CollectIdle
    /\ EvalIdle
    /\ DedupIdle
    /\ SurpriseIdle /\ PadIdle /\ LeakIdle /\ ZeroIdle
    /\ FactsIdle /\ MacroIdle /\ RateIdle
    /\ QualityIdle
    /\ PureIdle
    /\ SelectIdle
    /\ ExtractIdle
    /\ model_predict \in {0, 1}
    /\ model_proba \in ProbaChoices
    /\ presult = NoResult
    /\ bstep = "features"

RunPredict ==
    /\ bstep = "features"
    /\ presult' = predict(model_predict, model_proba)
    /\ bstep' = "done"
    /\ UNCHANGED <<model_predict, model_proba>>
    /\ UNCHANGED nonPredictVars

NextPredict ==
    \/ RunPredict

SpecPredict == InitPredict /\ [][NextPredict]_vars

(***************************************************************************)
(* DATA QUALITY ANALYSIS (python/analyze-data-quality.py)                  *)
(*                                                                         *)
(* A return is a record: null for an empty cell (NaN in the frame), else   *)
(* ret, the return in percent (the file holds fractions: 0.5 is 50).       *)
(***************************************************************************)
EXTREME_RETURN_THRESHOLD == 1000

HIGH_RETURN_THRESHOLD == 100

REASONABLE_RETURN_RANGE == 50

ExtremeNegativeLimit == 100

HighNegativeLimit == 50

Sample(ret) == [null |-> FALSE, ret |-> ret]

NaN == [null |-> TRUE, ret |-> 0]

SampleChoices ==
    {NaN} \cup {Sample(r) : r \in {1500, 1000, 500, 100, 75, 51, 50, 0,
                                   0 - 50, 0 - 75, 0 - 100, 0 - 150}}

SampleLists == UNION {[1..n -> SampleChoices] : n \in 1..MaxSamples}

(***************************************************************************)
(* df[mask]: the rows whose return satisfies the comparison; a comparison  *)
(* with NaN is false.                                                      *)
(***************************************************************************)
ExtremePositive(x) == ~x.null /\ x.ret > EXTREME_RETURN_THRESHOLD

ExtremeNegative(x) == ~x.null /\ x.ret < 0 - ExtremeNegativeLimit

HighPositive(x) ==
    ~x.null /\ x.ret > HIGH_RETURN_THRESHOLD /\ x.ret <= EXTREME_RETURN_THRESHOLD

HighNegative(x) ==
    ~x.null /\ x.ret < 0 - HighNegativeLimit /\ x.ret >= 0 - ExtremeNegativeLimit

Reasonable(x) ==
    ~x.null /\ x.ret >= 0 - REASONABLE_RETURN_RANGE /\ x.ret <= REASONABLE_RETURN_RANGE

analyze_data_quality(frame) ==
    [extreme_positive |-> {i \in 1..Len(frame) : ExtremePositive(frame[i])},
     extreme_negative |-> {i \in 1..Len(frame) : ExtremeNegative(frame[i])},
     high_positive |-> {i \in 1..Len(frame) : HighPositive(frame[i])},
     high_negative |-> {i \in 1..Len(frame) : HighNegative(frame[i])},
     reasonable |-> {i \in 1..Len(frame) : Reasonable(frame[i])}]

nonQualityVars == <<baseVars, pureVars, selectVars, extractVars, predictVars>>

InitQuality ==
    /\ CollectIdle
    /\ EvalIdle
    /\ DedupIdle
    /\ SurpriseIdle /\ PadIdle /\ LeakIdle /\ ZeroIdle
    /\ FactsIdle /\ MacroIdle /\ RateIdle
    /\ PureIdle
    /\ SelectIdle
    /\ ExtractIdle
    /\ PredictIdle
    /\ quality_df \in SampleLists
    /\ buckets = NoBuckets
    /\ qstep = "loaded"

DetectOutliers ==
    /\ qstep = "loaded"
    /\ buckets' = analyze_data_quality(quality_df)
    /\ qstep' = "detected"
    /\ UNCHANGED quality_df
    /\ UNCHANGED nonQualityVars

NextQuality ==
    \/ DetectOutliers

SpecQuality == InitQuality /\ [][NextQuality]_vars

(***************************************************************************)
(* Vocabulary of the properties.                                           *)
(***************************************************************************)
BatchScripts == {"full", "hist", "test"}

RowsAtOrAfter(h, d) == {i \in 1..Len(h) : h[i].date >= d}

AnchorIndex(h, d) ==
    CHOOSE i \in RowsAtOrAfter(h, d) : \A j \in RowsAtOrAfter(h, d) : i <= j

Finite(r) == ~r.null /\ r.den # 0

RatEq(r, n, m) == Finite(r) /\ m # 0 /\ r.num * m = n * r.den

Closes(h) == [k \in 1..Len(h) |-> h[k].close]

(***************************************************************************)
(* The return carried by the filing of ticker cur dated d: the record in   *)
(* all_filings, or, while collect-historical-data has not attached yet,    *)
(* the entry of the batch result.                                          *)
(***************************************************************************)
Attached(d) ==
    IF script = "hist" /\ pc # "done"
    THEN DictGet(returns, d)
    ELSE LET f == CHOOSE f \in Range(all_filings) :
                      f.ticker = cur /\ f.filingDate = d
         IN  f.actual7dReturn

BatchDone ==
    /\ script \in BatchScripts
    /\ pc # "aborted"
    /\ filing_dates # <<>>

C2_Original ==
    BatchDone =>
        \A d \in Range(filing_dates) :
            Cardinality(RowsAtOrAfter(hist, d)) >= 2 =>
                Attached(d) # NULL /\ Finite(Attached(d))

(***************************************************************************)
(* C2 amended: the same, where test-collection.py counts only the rows     *)
(* dated no later than 14 calendar days after the filing date.             *)
(***************************************************************************)
RowsInWindow(h, d) ==
    IF script = "test"
    THEN {i \in RowsAtOrAfter(h, d) : h[i].date <= d + WindowTest}
    ELSE RowsAtOrAfter(h, d)

C2_NonNullReturn ==
    BatchDone =>
        \A d \in Range(filing_dates) :
            Cardinality(RowsInWindow(hist, d)) >= 2 =>
                Attached(d) # NULL /\ Finite(Attached(d))

C2_Witness ==
    /\ BatchDone /\ script = "test"
    /\ \E d \in Range(filing_dates) :
          /\ Cardinality(RowsInWindow(hist, d)) >= 2
          /\ Attached(d) # NULL
    /\ \E d \in Range(filing_dates) :
          /\ Cardinality(RowsAtOrAfter(hist, d)) >= 2
          /\ Cardinality(RowsInWindow(hist, d)) < 2
          /\ Attached(d) = NULL

(***************************************************************************)
(* C3: a filing with fewer than two rows of the fetched series dated on or *)
(* after its filing date (none included, and no series at all) carries a   *)
(* null return.                                                            *)
(***************************************************************************)
C3_NullReturn ==
    BatchDone =>
        \A d \in Range(filing_dates) :
            Cardinality(RowsAtOrAfter(hist, d)) < 2 => Attached(d) = NULL

C3_Witness ==
    /\ BatchDone /\ script \in {"full", "hist"}
    /\ \E d \in Range(filing_dates) :
          /\ Cardinality(RowsAtOrAfter(hist, d)) = 1
          /\ Attached(d) = NULL

(***************************************************************************)
(* C7 as stated: in a run of any script the price-history source is called *)
(* at most once per ticker.                                                *)
(***************************************************************************)
C7_Original ==
    \A t \in TickerSet : priceCalls[t] <= 1

(***************************************************************************)
(* C7 amended: collect-full-dataset, collect-historical-data and           *)
(* test-collection call the price-history source at most once per ticker,  *)
(* however many filings the ticker has; analyze_prefiling_volume calls it  *)
(* once for every processed row whose key is not in its cache.             *)
(***************************************************************************)
RECURSIVE SumCalls(_)
SumCalls(ts) ==
    IF ts = {} THEN 0
    ELSE LET t == CHOOSE x \in ts : TRUE
         IN  priceCalls[t] + SumCalls(ts \ {t})

FilingsOf(t) == {k \in 1..Len(all_filings) : all_filings[k].ticker = t}

C7_OncePerTicker ==
    /\ script \in BatchScripts => \A t \in TickerSet : priceCalls[t] <= 1
    /\ script = "volume" => SumCalls(TickerSet) = fetched + failed

C7_Witness ==
    /\ script \in BatchScripts /\ pc = "done"
    /\ \E t \in TickerSet :
          priceCalls[t] = 1 /\ Cardinality(FilingsOf(t)) >= 2

(***************************************************************************)
(* C8: when the price call of a ticker raises or returns no rows, the      *)
(* exception does not leave the return calculation (the run is not ended   *)
(* by it) and every filing of that ticker carries a null return.           *)
(***************************************************************************)
PriceUnavailable ==
    \/ fetchStatus = "error"
    \/ fetchStatus = "ok" /\ hist = <<>>

C8_FetchFailureIsNull ==
    (script \in BatchScripts /\ filing_dates # <<>> /\ PriceUnavailable) =>
        /\ pc = "aborted" => (script = "test" /\ indexStatus = "error")
        /\ \A d \in Range(filing_dates) : Attached(d) = NULL

C8_Witness ==
    /\ script \in BatchScripts /\ pc = "done"
    /\ fetchStatus = "error"
    /\ Len(filing_dates) >= 2
    /\ \A d \in Range(filing_dates) : Attached(d) = NULL

(***************************************************************************)
(* C9 as stated: a failed external call for one ticker never ends the run; *)
(* the remaining tickers are processed and the output is emitted.          *)
(***************************************************************************)
C9_Original ==
    pc # "aborted"


(***************************************************************************)
(* Vocabulary of the evaluation properties.                                *)
(***************************************************************************)
NonNull(ps) == {k \in 1..Len(ps) : ~ps[k].actual.null}

Reported(s) == report[s].state # "none"

SpecExample ==
    <<[predicted |-> Val(1), actual |-> Val(0)],
      [predicted |-> Val(0 - 1), actual |-> Val(0 - 2)],
      [predicted |-> Val(1), actual |-> Val(3)]>>

(***************************************************************************)
(* C4 (as stated): the direction-accuracy computation of the backtest      *)
(* scripts leaves every pair with a null actual return out of total and    *)
(* out of the correct count: with n pairs of which k have a null actual,   *)
(* the script reports total = n - k, and the correct count is the number   *)
(* of agreeing pairs among those with a non-null actual.                   *)
(***************************************************************************)
C4_Original ==
    /\ Reported("real") =>
          /\ report["real"].state = "ok"
          /\ report["real"].total = Cardinality(NonNull(pairs))
          /\ report["real"].correct =
                Cardinality({k \in NonNull(pairs) :
                    (pairs[k].predicted.num > 0) = (pairs[k].actual.num > 0)})
    /\ Reported("comprehensive") =>
          /\ report["comprehensive"].state = "ok"
          /\ report["comprehensive"].total = Cardinality(NonNull(pairs))
          /\ report["comprehensive"].correct =
                Cardinality({k \in NonNull(pairs) : pairs[k].actual.num > 0})

(***************************************************************************)
(* C5 (as stated): a value of exactly 0 is in the positive bucket, so the  *)
(* correct count of the regression and backtest comparison is the number   *)
(* of pairs whose predicted and actual values are both >= 0 or both < 0;   *)
(* the spec's example gives 3 correct of 3.                                *)
(***************************************************************************)
C5_Original ==
    \A s \in {"real", "stepwise"} :
        (report[s].state = "ok" /\ NonNull(pairs) = 1..Len(pairs)) =>
            report[s].correct =
                Cardinality({k \in 1..Len(pairs) :
                    (pairs[k].predicted.num >= 0) = (pairs[k].actual.num >= 0)})

(***************************************************************************)
(* C5 (amended): in the comparison (predicted > 0) == (actual > 0) a value *)
(* of exactly 0 is in the non-positive bucket: a pair (predicted > 0,      *)
(* actual = 0) counts as incorrect, a pair (predicted < 0, actual = 0)     *)
(* counts as correct, and the always-positive baseline of the              *)
(* comprehensive backtest is correct exactly on the strictly positive      *)
(* actual returns.  Predictions [+1, -1, +1] against actuals [0, -2, 3]    *)
(* give 2 correct of 3.                                                    *)
(***************************************************************************)
C5_ZeroIsNotPositive ==
    /\ \A s \in {"real", "stepwise"} :
          (report[s].state = "ok" /\ NonNull(pairs) = 1..Len(pairs)) =>
              /\ report[s].correct =
                    Cardinality({k \in 1..Len(pairs) :
                        \/ pairs[k].predicted.num > 0 /\ pairs[k].actual.num > 0
                        \/ pairs[k].predicted.num <= 0 /\ pairs[k].actual.num <= 0})
              /\ report[s].total = Len(pairs)
    /\ report["comprehensive"].state = "ok" =>
          report["comprehensive"].correct =
              Cardinality({k \in 1..Len(pairs) : pairs[k].actual.num > 0})
    /\ (pairs = SpecExample /\ report["stepwise"].state = "ok") =>
          (report["stepwise"].correct = 2 /\ report["stepwise"].total = 3)

C5_Witness ==
    /\ pairs = SpecExample
    /\ report["stepwise"] = [state |-> "ok", correct |-> 2, total |-> 3]
    /\ report["comprehensive"] = [state |-> "ok", correct |-> 1, total |-> 3]

(***************************************************************************)
(* C6 (as stated): for any list of pairs without a null, the backtest, the *)
(* regression script and direction_accuracy of the ML training scripts     *)
(* report the same number of correct pairs.                                *)
(***************************************************************************)
C6_Original ==
    \A s, t \in {"real", "stepwise", "ml"} :
        (report[s].state = "ok" /\ report[t].state = "ok"
            /\ NonNull(pairs) = 1..Len(pairs)) =>
                report[s].correct = report[t].correct


(***************************************************************************)
(* Vocabulary of the deduplication properties.                             *)
(***************************************************************************)
Deduplicated == step \in {"deduped", "no_extremes", "trained", "raised"}

IdsOf(rows) == {rows[k].id : k \in 1..Len(rows)}

KeysOf(rows) == {ticker_date(rows[k]) : k \in 1..Len(rows)}

FirstInInput(key) ==
    CHOOSE k \in 1..Len(csv) :
        /\ ticker_date(csv[k]) = key
        /\ \A j \in 1..Len(csv) : ticker_date(csv[j]) = key => k <= j

(***************************************************************************)
(* C10 (as stated): after the deduplication pass every (ticker,            *)
(* filingDate) key of the input has exactly one record left, that record   *)
(* is the first of the key in the order of the input file, and no other    *)
(* record reaches outlier removal, winsorization or the fit.               *)
(***************************************************************************)
C10_Original ==
    Deduplicated =>
        /\ \A key \in KeysOf(csv) :
              /\ Cardinality({k \in 1..Len(df_dedup) :
                                ticker_date(df_dedup[k]) = key}) = 1
              /\ FirstInInput(key) \in IdsOf(df_dedup)
        /\ IdsOf(df_no_extremes) \subseteq IdsOf(df_dedup)
        /\ IdsOf(df_clean) \subseteq IdsOf(df_dedup)

(***************************************************************************)
(* The part of C10 that the script does keep: exactly one record per key   *)
(* after the pass, and nothing but kept records downstream.                *)
(***************************************************************************)
DedupOnePerKey ==
    Deduplicated =>
        /\ \A key \in KeysOf(csv) :
              Cardinality({k \in 1..Len(df_dedup) :
                              ticker_date(df_dedup[k]) = key}) = 1
        /\ IdsOf(df_no_extremes) \subseteq IdsOf(df_dedup)
        /\ IdsOf(df_clean) \subseteq IdsOf(df_dedup)


(***************************************************************************)
(* Vocabulary of the surprise properties.                                  *)
(***************************************************************************)
SurpriseDone == sstep = "done"

CategoryOfMagnitude(m) ==
    IF m.num > 5 * m.den THEN "beat"
    ELSE IF m.num < (0 - 5) * m.den THEN "miss"
    ELSE "inline"

NoComparablePrior(k) ==
    \/ ticker_filings[k].filingType = "10-Q" /\ k - 1 < 4
    \/ /\ ticker_filings[k].filingType = "10-K"
       /\ \A j \in 1..(k - 1) : ticker_filings[j].filingType # "10-K"

C12_Original ==
    SurpriseDone =>
        \A k \in 1..Len(ticker_filings) :
            (ticker_filings[k].filingType = "10-Q" /\ ticker_filings[k].prior # 0) =>
                /\ ticker_filings[k].prior = k - 4
                /\ ticker_filings[ticker_filings[k].prior].period =
                       ticker_filings[k].period - 4

(***************************************************************************)
(* The part of C12 that the loop does keep: the prior of a 10-Q is the     *)
(* filing 4 positions earlier in the sorted list.                          *)
(***************************************************************************)
PriorIsFourPositionsBack ==
    SurpriseDone =>
        \A k \in 1..Len(ticker_filings) :
            (ticker_filings[k].filingType = "10-Q" /\ ticker_filings[k].prior # 0) =>
                ticker_filings[k].prior = k - 4

(***************************************************************************)
(* C13: a filing without a comparable prior (a 10-Q with fewer than 4      *)
(* earlier filings of the ticker, a 10-K with no earlier 10-K) carries no  *)
(* surprise category and no surprise magnitude, for eps and for revenue.   *)
(***************************************************************************)
C13_NoPriorNoSurprise ==
    SurpriseDone =>
        \A k \in 1..Len(ticker_filings) :
            NoComparablePrior(k) =>
                /\ ticker_filings[k].epsSurprise = "absent"
                /\ ticker_filings[k].epsSurpriseMagnitude = NULL
                /\ ticker_filings[k].revenueSurprise = "absent"
                /\ ticker_filings[k].revenueSurpriseMagnitude = NULL

C13_Witness ==
    /\ SurpriseDone
    /\ \E k \in 1..Len(ticker_filings) :
          /\ NoComparablePrior(k)
          /\ ticker_filings[k].eps # 0
          /\ ticker_filings[k].revenue # 0
          /\ ticker_filings[k].epsSurprise = "absent"
    /\ \E k \in 1..Len(ticker_filings) :
          /\ ~NoComparablePrior(k)
          /\ ticker_filings[k].epsSurprise = "inline"


(***************************************************************************)
(* C14 (as stated): the fetched range is padded far enough that, for every *)
(* filing date for which the price source holds horizonDays + 1 trading    *)
(* days at or after it, the rows the return is computed from number at     *)
(* least horizonDays + 1, so the end row is the one horizonDays trading    *)
(* days after the anchor.                                                  *)
(***************************************************************************)
C14_Original ==
    pstep = "done" =>
        \A d \in Range(pdates) :
            Len(RowsFrom(calendar, d)) >= HorizonDays + 1 =>
                /\ Len(pwindows[d]) >= HorizonDays + 1
                /\ pwindows[d][HorizonDays + 1] = RowsFrom(calendar, d)[HorizonDays + 1]


(***************************************************************************)
(* What the padding does give: with at most two holidays in the range,     *)
(* the scripts that pad by 14 calendar days compute the full horizon.      *)
(***************************************************************************)
PadOfFourteenSuffices ==
    (pstep = "done" /\ pscript # "hist") =>
        \A d \in Range(pdates) :
            Len(RowsFrom(calendar, d)) >= HorizonDays + 1 =>
                Len(pwindows[d]) >= HorizonDays + 1


(***************************************************************************)
(* Vocabulary of the error-statistics properties: the absolute errors of   *)
(* the pairs with a non-null actual, in hundredths, for a script that      *)
(* predicts pred(k) for pair k.                                            *)
(***************************************************************************)
PredictedBy(s, k) ==
    IF s = "comprehensive" THEN 83 ELSE pairs[k].predicted.num * 100

ExpectedError(s, k) ==
    IF PredictedBy(s, k) >= pairs[k].actual.num * 100
    THEN PredictedBy(s, k) - pairs[k].actual.num * 100
    ELSE pairs[k].actual.num * 100 - PredictedBy(s, k)

RECURSIVE ExpectedSum(_, _)
ExpectedSum(s, K) ==
    IF K = {} THEN 0
    ELSE LET k == CHOOSE x \in K : TRUE
         IN ExpectedError(s, k) + ExpectedSum(s, K \ {k})

(***************************************************************************)
(* C15 (as stated): in both backtests the mean and the median absolute     *)
(* error are taken over exactly the pairs with a non-null actual return    *)
(* (their number is the count, the sum of their errors the sum), and a     *)
(* null actual does not make the computation fail.                         *)
(***************************************************************************)
C15_Original ==
    \A s \in BacktestScripts :
        errstats[s].state # "none" =>
            /\ errstats[s].state = "ok"
            /\ errstats[s].count = Cardinality(NonNull(pairs))
            /\ errstats[s].sum = ExpectedSum(s, NonNull(pairs))

(***************************************************************************)
(* The part of C15 that holds: backtest-with-real-data.py takes the mean   *)
(* and the median over the pairs with a non-null actual return.            *)
(***************************************************************************)
ErrorStatsRealSkipsNull ==
    errstats["real"].state # "none" =>
        /\ errstats["real"].state = "ok"
        /\ errstats["real"].count = Cardinality(NonNull(pairs))
        /\ errstats["real"].sum = ExpectedSum("real", NonNull(pairs))


(***************************************************************************)
(* Vocabulary of the shortened-horizon example: the rows from the filing   *)
(* date on are the synthetic series from its day 3 (price 95) to its end.  *)
(***************************************************************************)
AnchoredAtDay3(d) ==
    Closes(RowsFrom(hist, d)) = SubSeq(SyntheticSeries, 4, Len(SyntheticSeries))

(***************************************************************************)
(* C16 (as stated): for the series 100, 105, 110, 95, 90, 100, 107, 103    *)
(* anchored at day 3 with horizonDays = 7 the return is                    *)
(* (107 - 95) / 95 * 100.                                                  *)
(***************************************************************************)
C16_Original ==
    (BatchDone /\ script \in {"full", "hist"}) =>
        \A d \in Range(filing_dates) :
            AnchoredAtDay3(d) => RatEq(Attached(d), (107 - 95) * 100, 95)

(***************************************************************************)
(* C16 (amended): for that series anchored at day 3 the end index clamps   *)
(* to the last index of the series, whose price is 103, and the return is  *)
(* (103 - 95) / 95 * 100, about +8.42%.                                    *)
(***************************************************************************)
C16_ShortenedHorizon ==
    (BatchDone /\ script \in {"full", "hist"}) =>
        \A d \in Range(filing_dates) :
            AnchoredAtDay3(d) =>
                /\ Min2(AnchorIndex(hist, d) + HorizonDays, Len(hist)) = Len(hist)
                /\ hist[Len(hist)].close = 103
                /\ RatEq(Attached(d), (103 - 95) * 100, 95)

C16_Witness ==
    /\ BatchDone /\ script \in {"full", "hist"}
    /\ \E d \in Range(filing_dates) :
          /\ AnchoredAtDay3(d)
          /\ hist[AnchorIndex(hist, d)].close = 95
          /\ Len(RowsFrom(hist, d)) < HorizonDays + 1
          /\ RatEq(Attached(d), 800, 95)


(***************************************************************************)
(* C17 (as stated): the prediction that is scored against a filing's       *)
(* actual return does not depend on that return: two runs that differ only *)
(* in the filing's actual7dReturn predict the same value.                  *)
(***************************************************************************)
C17_Original == lstep = "scored" => lpred[1] = lpred[2]


(***************************************************************************)
(* C18 (as stated): an input value that is missing, null or unparseable is *)
(* never turned into a number: the function raises, or the value comes out *)
(* null or absent.                                                         *)
(***************************************************************************)
C18_Original ==
    zstep = "done" =>
        \A k \in 1..Len(zin) :
            zin[k].kind \in {"missing", "null", "unparseable"} =>
                zout[k].kind \in {"raised", "null", "absent"}

(***************************************************************************)
(* What the three functions do keep: a text is never turned into a number. *)
(***************************************************************************)
UnparseableIsNotZeroed ==
    zstep = "done" =>
        \A k \in 1..Len(zin) :
            zin[k].kind = "unparseable" => zout[k].kind \in {"raised", "null"}


(***************************************************************************)
(* The fetch log: how often a key was attempted, how many processed rows   *)
(* or filings carry it, and whether a key was attempted again after an     *)
(* attempt for it had failed.                                              *)
(***************************************************************************)
AttemptsFor(key) ==
    Cardinality({i \in 1..Len(fetchLog) : fetchLog[i].key = key})

RowsFor(key) ==
    Cardinality({i \in 1..(ti - 1) : df[i] = key})

FilingsFor(ticker) ==
    Cardinality({i \in 1..(ti - 1) : data_filings[i] = ticker})

RefetchedAfterFailure ==
    \E i, j \in 1..Len(fetchLog) :
        i < j /\ fetchLog[i].key = fetchLog[j].key /\ ~fetchLog[i].ok

(***************************************************************************)
(* C19 as stated: within a run, a fetch that failed for a key is never     *)
(* attempted a second time for that key, however many later records share  *)
(* the key.  analyze_prefiling_volume caches successful fetches only, so a *)
(* later row with the key of a failed fetch is fetched again.              *)
(***************************************************************************)
C19_Original == ~RefetchedAfterFailure

(***************************************************************************)
(* C19, amended: the extraction loop caches the None of a failed request,  *)
(* so no ticker is fetched twice, and the collection scripts call the      *)
(* price source at most once per ticker; analyze_prefiling_volume never    *)
(* fetches a key again after a success, and fetches a key that is not in   *)
(* its cache once for every row that carries it.                           *)
(***************************************************************************)
C19_NoRetryWhereFailureIsCached ==
    /\ script = "facts" =>
         /\ \A t \in FilingTickers : AttemptsFor(t) <= 1
         /\ \A t \in CIK_MAP : FilingsFor(t) > 0 => AttemptsFor(t) = 1
    /\ script \in {"full", "hist", "test"} =>
         \A t \in TickerSet : priceCalls[t] <= 1
    /\ script = "volume" =>
         /\ \A i, j \in 1..Len(fetchLog) :
                (i < j /\ fetchLog[i].key = fetchLog[j].key) => ~fetchLog[i].ok
         /\ \A k \in KeyChoices : k \notin cache => AttemptsFor(k) = RowsFor(k)

C19_Witness ==
    /\ script = "facts" /\ pc = "done"
    /\ \E t \in CIK_MAP :
         /\ t \in DOMAIN ticker_cache /\ ticker_cache[t] = "None"
         /\ FilingsFor(t) >= 2
         /\ AttemptsFor(t) = 1


(***************************************************************************)
(* The indicators of the result dict, the ones the external sources did    *)
(* not provide in this call, and the ones that were obtained.              *)
(***************************************************************************)
IndicatorFields ==
    {"spxClose", "spxReturn7d", "spxReturn14d", "spxReturn21d", "spxReturn30d",
     "vixClose", "vixMA30", "treasury3m", "treasury10y", "treasury10yChange30d",
     "treasury2y", "dollarIndex", "dollar30dChange", "dollarVsYearAvg"}
    \cup {sectors[k].field_name : k \in 1..Len(sectors)}

Unavailable == IndicatorFields \ result

Obtained == IndicatorFields \cap result

(***************************************************************************)
(* C20 as stated: when an individual indicator is unavailable from the     *)
(* external source, fetch_enhanced_macro_indicators still returns a        *)
(* success result in which that field is absent and every indicator that   *)
(* was obtained is present.  The summary line formats the 7-day SPX        *)
(* return, the 10-year yield and the VIX close as floats, so the absence   *)
(* of any of the three raises and the failure dict is returned.            *)
(***************************************************************************)
C20_Original ==
    (mstep = "done" /\ ~fetchRaised /\ Unavailable # {}) =>
        /\ macro_out.success
        /\ Unavailable \cap macro_out.fields = {}
        /\ Obtained \subseteq macro_out.fields


(***************************************************************************)
(* C21 as stated: between any two consecutive external network calls of a  *)
(* run there is a rate-limit delay.  collect-full-dataset.py requests the  *)
(* filing index and the price history of a ticker back to back and sleeps  *)
(* once per ticker; calculate_stock_returns_batch requests the price       *)
(* history of one ticker after the other with no delay at all.             *)
(***************************************************************************)
C21_Original ==
    \A i \in 1..(Len(events) - 1) :
        ~(events[i] = "call" /\ events[i + 1] = "call")


C23_Original ==
    step \in {"no_extremes", "trained", "raised"} =>
        /\ \A k \in 1..Len(df_dedup) :
              (df_dedup[k].id \notin {df_no_extremes[j].id : j \in 1..Len(df_no_extremes)})
                  <=> (df_dedup[k].ret > 100 \/ df_dedup[k].ret < 0 - 100)
        /\ \A j \in 1..Len(df_no_extremes) :
              df_no_extremes[j].ret <= 100 /\ df_no_extremes[j].ret >= 0 - 100


(***************************************************************************)
(* C24 as stated: the final model trained on the full dataset is of the    *)
(* same estimator family as the cross-validation winner, the candidate     *)
(* with the highest mean direction accuracy.  ml_analysis.py passes the    *)
(* name GradientBoosting to a function that knows the name XGBoost, and    *)
(* fits a linear regression instead.                                       *)
(***************************************************************************)
C24_Original ==
    tstep \in {"trained", "done"} =>
        /\ \A j \in 1..Len(cv_results) : cv_results[j] <= cv_results[best_result]
        /\ final_model = models[best_result].estimator


(***************************************************************************)
(* The keys a log of fetches holds, and the keys it holds a success for.   *)
(***************************************************************************)
KeysIn(log) == {log[i].key : i \in 1..Len(log)}

SucceededIn(log) == {log[i].key : i \in {j \in 1..Len(log) : log[j].ok}}

(***************************************************************************)
(* C25: a run of analyze_prefiling_volume that follows a completed run     *)
(* over the same input and loads the saved cache fetches, and waits the    *)
(* rate-limit delay, for exactly the keys whose fetch did not succeed in   *)
(* the earlier run, and does neither for a key that succeeded.             *)
(***************************************************************************)
C25_SecondRunFetchesFailedKeysOnly ==
    (script = "volume" /\ vrun = 2) =>
        /\ KeysIn(fetchLog) \subseteq KeysIn(firstLog) \ SucceededIn(firstLog)
        /\ \A i \in 1..(ti - 1) :
              df[i] \in KeysIn(firstLog) \ SucceededIn(firstLog)
                  => df[i] \in KeysIn(fetchLog)
        /\ sleeps = Len(fetchLog)

C25_Witness ==
    /\ script = "volume" /\ vrun = 2 /\ pc = "done"
    /\ SucceededIn(firstLog) # {}
    /\ KeysIn(firstLog) \ SucceededIn(firstLog) # {}
    /\ KeysIn(fetchLog) = KeysIn(firstLog) \ SucceededIn(firstLog)
    /\ \E i \in 1..Len(df) : df[i] \in cache_file \ KeysIn(firstLog)


(***************************************************************************)
(* The label that the +/-5 rule gives to a magnitude as it is stored.      *)
(***************************************************************************)
LabelAgrees(label, magnitude) == label = Classify(magnitude)

(***************************************************************************)
(* C27 (as stated): on every filing that carries a surprise label and its  *)
(* stored magnitude, the label is "beat" iff the stored magnitude is above *)
(* 5, "miss" iff it is below -5, and "inline" otherwise.                   *)
(* extract-real-financial-data.py classifies the growth before rounding it *)
(* and stores the rounded value: a revenue going from 1999 to 2099 grows   *)
(* by 5.0025 percent, is labelled "beat" and is stored as 5.0.             *)
(***************************************************************************)
C27_Original ==
    (sstep = "done") =>
        \A i \in 1..Len(ticker_filings) :
            LET f == ticker_filings[i]
            IN  /\ (f.epsSurprise # "absent" /\ ~f.epsSurpriseMagnitude.null) =>
                      LabelAgrees(f.epsSurprise, f.epsSurpriseMagnitude)
                /\ (f.revenueSurprise # "absent" /\ ~f.revenueSurpriseMagnitude.null) =>
                      LabelAgrees(f.revenueSurprise, f.revenueSurpriseMagnitude)


(***************************************************************************)
(* The facts hold a numeric value of metric m for the filing.              *)
(***************************************************************************)
HasNumeric(m) ==
    \E i \in 1..Len(company_facts[m]) :
        company_facts[m][i].accn = OwnAccn /\ company_facts[m][i].present

(***************************************************************************)
(* C26 (as stated): when the company facts hold a numeric value of eps,    *)
(* revenue or net income for the filing's accession number, the enriched   *)
(* filing's realFinancials has that metric, a value of 0 included.         *)
(* extract_financials tests the value for truth (`if eps:'), so a reported *)
(* 0 is dropped, and with it realFinancials when no other metric is left.  *)
(***************************************************************************)
C26_Original ==
    (xstep = "done") =>
        \A m \in MetricNames :
            HasNumeric(m) =>
                /\ enriched_filing.hasRealFinancials
                /\ enriched_filing.realFinancials[m].has


(***************************************************************************)
(* C28 (as stated): in the result of predict() the recommendation is the   *)
(* one get_recommendation gives to the reported, three-decimal confidence. *)
(* predict() takes the recommendation from the confidence before rounding  *)
(* it: a probability of 0.6496 gives BUY/HALF and is reported as 0.65,     *)
(* for which get_recommendation gives BUY/FULL.                            *)
(***************************************************************************)
C28_Original ==
    (bstep = "done") =>
        presult.recommendation = get_recommendation(presult.confidence, 1000)


(***************************************************************************)
(* The selections that hold row i.                                         *)
(***************************************************************************)
BucketsOf(i) == {b \in DOMAIN buckets : i \in buckets[b]}

BucketTotal ==
    Cardinality(buckets.extreme_positive) + Cardinality(buckets.extreme_negative)
        + Cardinality(buckets.high_positive) + Cardinality(buckets.high_negative)
        + Cardinality(buckets.reasonable)

(***************************************************************************)
(* C29 (as stated): every non-null return is in exactly one of the five    *)
(* selections extreme positive, extreme negative, high positive, high      *)
(* negative and reasonable, so their sizes add up to the number of         *)
(* non-null returns.  No selection takes a return above 50% and up to      *)
(* 100%: high positive starts above 100% while reasonable ends at 50%.     *)
(***************************************************************************)
C29_Original ==
    (qstep = "detected") =>
        /\ \A i \in 1..Len(quality_df) :
              ~quality_df[i].null => Cardinality(BucketsOf(i)) = 1
        /\ BucketTotal = Cardinality({i \in 1..Len(quality_df) : ~quality_df[i].null})


(***************************************************************************)
(* C30: in the fetch loop of analyze_prefiling_volume every processed row  *)
(* is counted in exactly one of fetched, cached and failed: the three      *)
(* counters add up to the number of rows processed so far, and each        *)
(* iteration adds one to exactly one of them.                              *)
(***************************************************************************)
C30_CountersPartitionRows ==
    /\ [](script = "volume" => fetched + cached + failed = ti - 1)
    /\ [][(script = "volume" /\ ti' = ti + 1) =>
            \/ fetched' = fetched + 1 /\ cached' = cached /\ failed' = failed
            \/ fetched' = fetched /\ cached' = cached + 1 /\ failed' = failed
            \/ fetched' = fetched /\ cached' = cached /\ failed' = failed + 1]_vars

C30_Witness ==
    /\ script = "volume" /\ pc = "done"
    /\ fetched > 0 /\ cached > 0 /\ failed > 0
    /\ fetched + cached + failed = Len(df)

====
